---- MODULE Spec2Model ----
(***************************************************************************)
(* A model of the notation parsers of samson (src/parser/san.rs,           *)
(* src/parser/pgn.rs, src/parser/bom.rs) over byte sequences.  A byte is a *)
(* one-character string; a buffer is a sequence of bytes.  Every parser is *)
(* an operator from the remaining input to an IResult, built from the nom  *)
(* combinators exactly as the named! definitions of the source build it.   *)
(***************************************************************************)
EXTENDS Integers, Sequences, FiniteSets, TLC

VARIABLES input, meta, out, pc

vars == <<input, meta, out, pc>>

(***************************************************************************)
(* nom::IResult and the combinators the source uses.                       *)
(***************************************************************************)
Done(i, o) == [st |-> "Done", rest |-> i, val |-> o]

Error == [st |-> "Error", rest |-> <<>>, val |-> <<>>]

Incomplete == [st |-> "Incomplete", rest |-> <<>>, val |-> <<>>]

NoResult == [st |-> "None", rest |-> <<>>, val |-> <<>>]

Take(i, n) == SubSeq(i, 1, n)

Drop(i, n) == SubSeq(i, n + 1, Len(i))

Min(a, b) == IF a < b THEN a ELSE b

\* Option<T>: None is the empty sequence, Some(x) the one-element sequence.
None == <<>>

Some(x) == <<x>>

IsSome(o) == Len(o) = 1

\* Only([x \in {d} |-> e]) is e with x standing for the value of d: the
\* binding of one intermediate result, as do_parse! binds its fields.
Only(f) == f[CHOOSE x \in DOMAIN f : TRUE]

\* tag!(t): compares the common prefix; a short input that agrees so far is
\* Incomplete, a mismatch is an Error.
tag(i, t) ==
    LET n == Min(Len(i), Len(t)) IN
    IF Take(i, n) # Take(t, n) THEN Error
    ELSE IF Len(i) < Len(t) THEN Incomplete
    ELSE Done(Drop(i, Len(t)), t)

\* one_of!(set): one byte of the set; Incomplete on empty input.
one_of(i, S) ==
    IF i = <<>> THEN Incomplete
    ELSE IF Head(i) \in S THEN Done(Tail(i), Head(i))
    ELSE Error

\* char!(c)
char(i, c) == one_of(i, {c})

\* Index of the first byte of i that is in S, or 0 when there is none.
FirstIn(i, S) ==
    IF \E k \in 1..Len(i) : i[k] \in S
    THEN CHOOSE k \in 1..Len(i) : i[k] \in S /\ \A j \in 1..(k - 1) : i[j] \notin S
    ELSE 0

\* Index of the first byte of i that is not in S, or 0 when there is none.
FirstNotIn(i, S) ==
    IF \E k \in 1..Len(i) : i[k] \notin S
    THEN CHOOSE k \in 1..Len(i) : i[k] \notin S /\ \A j \in 1..(k - 1) : i[j] \in S
    ELSE 0

\* is_not!(set): the longest non-empty prefix holding no byte of the set; it
\* runs to the end of the input when no byte of the set occurs.
is_not(i, S) ==
    LET p == FirstIn(i, S) IN
    IF p = 1 THEN Error
    ELSE IF p = 0 THEN Done(<<>>, i)
    ELSE Done(Drop(i, p - 1), Take(i, p - 1))

\* is_a!(set): the longest non-empty prefix of bytes of the set.
is_a(i, S) ==
    LET p == FirstNotIn(i, S) IN
    IF p = 1 THEN Error
    ELSE IF p = 0 THEN Done(<<>>, i)
    ELSE Done(Drop(i, p - 1), Take(i, p - 1))

\* complete!(p): Incomplete becomes an Error.
complete(r) == IF r.st = "Incomplete" THEN Error ELSE r

\* opt!(p): an Error becomes Done(None) on the untouched input; Incomplete stays.
opt(i, r) ==
    IF r.st = "Done" THEN Done(r.rest, Some(r.val))
    ELSE IF r.st = "Error" THEN Done(i, None)
    ELSE r

\* map!(p, f): r is the result of p and v the value f gives for it; v is
\* only looked at when r is Done.
map(r, v) == IF r.st = "Done" THEN Done(r.rest, v) ELSE r

Whitespace == {" ", "\r", "\n", "\t"}

\* nom::sp, the separator of ws!: eats leading blanks, never fails.
sp(i) ==
    LET p == FirstNotIn(i, Whitespace) IN
    IF p = 0 THEN Done(<<>>, i) ELSE Done(Drop(i, p - 1), Take(i, p - 1))

\* ws!(p) on a parser that is not a sequence: separator, parser, separator.
\* The parser runs on the input behind the leading separator, which skip
\* gives; ws takes its result there and eats the trailing separator.
skip(i) == sp(i).rest

ws(r) == IF r.st = "Done" THEN Done(skip(r.rest), r.val) ELSE r

(***************************************************************************)
(* src/types.rs                                                            *)
(***************************************************************************)
PAWN == 1

KNIGHT == 2

BISHOP == 3

ROOK == 4

QUEEN == 5

KING == 6

PIECE_TYPE_NB == 8

FILE_NB == 8

RANK_NB == 8

make_square(f, r) == (r * 8) + f

(***************************************************************************)
(* src/parser/san.rs                                                       *)
(***************************************************************************)
SourceNone == [k |-> "None", v |-> 0]

SourceRank(r) == [k |-> "Rank", v |-> r]

SourceFile(f) == [k |-> "File", v |-> f]

SourceSquare(s) == [k |-> "Square", v |-> s]

PromotionNone == [k |-> "None", v |-> 0]

PromotionPieceType(pt) == [k |-> "PieceType", v |-> pt]

\* san::Node
NodeMove(pt, src, cap, sq, promo, chk, ann) ==
    [kind |-> "Move", pt |-> pt, src |-> src, cap |-> cap, sq |-> sq,
     promo |-> promo, chk |-> chk, ann |-> ann]

NodeOther(kind, chk, ann) ==
    [kind |-> kind, pt |-> 0, src |-> SourceNone, cap |-> "Move", sq |-> 0,
     promo |-> PromotionNone, chk |-> chk, ann |-> ann]

InvalidMove == NodeOther("InvalidMove", "None", "None")

PieceLetter(c) ==
    CASE c = "P" -> PAWN
      [] c = "N" -> KNIGHT
      [] c = "B" -> BISHOP
      [] c = "R" -> ROOK
      [] c = "Q" -> QUEEN
      [] c = "K" -> KING
      [] OTHER -> PIECE_TYPE_NB

san_piece(i) ==
    Only([r \in {one_of(i, {"P", "N", "B", "R", "Q", "K", "p", "n", "b", "r", "q", "k"})} |->
      map(r, PieceLetter(r.val))])

FileLetter(c) ==
    CASE c \in {"a", "A"} -> 0
      [] c \in {"b", "B"} -> 1
      [] c \in {"c", "C"} -> 2
      [] c \in {"d", "D"} -> 3
      [] c \in {"e", "E"} -> 4
      [] c \in {"f", "F"} -> 5
      [] c \in {"g", "G"} -> 6
      [] c \in {"h", "H"} -> 7
      [] OTHER -> FILE_NB

san_file(i) ==
    Only([r \in {one_of(i, {"a", "b", "c", "d", "e", "f", "g", "h",
                        "A", "B", "C", "D", "E", "F", "G", "H"})} |->
      map(r, FileLetter(r.val))])

RankDigit(c) ==
    CASE c = "1" -> 0
      [] c = "2" -> 1
      [] c = "3" -> 2
      [] c = "4" -> 3
      [] c = "5" -> 4
      [] c = "6" -> 5
      [] c = "7" -> 6
      [] c = "8" -> 7
      [] OTHER -> RANK_NB

san_rank(i) ==
    Only([r \in {one_of(i, {"1", "2", "3", "4", "5", "6", "7", "8"})} |->
      map(r, RankDigit(r.val))])

CaptureLetter(c) == IF c = "x" THEN "Capture" ELSE "Move"

san_capture(i) ==
    Only([r \in {one_of(i, {"x"})} |->
      map(r, CaptureLetter(r.val))])

san_promotion(i) == one_of(i, {"="})

CheckLetter(c) ==
    CASE c = "+" -> "Check"
      [] c = "#" -> "Checkmate"
      [] OTHER -> "None"

san_check(i) ==
    Only([r \in {one_of(i, {"+", "#"})} |->
      map(r, CheckLetter(r.val))])

\* alt_complete! over tags: the first tag, in the order given, that matches.
RECURSIVE alt_complete_tags(_, _)
alt_complete_tags(i, tags) ==
    IF tags = <<>> THEN Error
    ELSE Only([r \in {complete(tag(i, Head(tags)))} |->
      IF r.st = "Done" THEN r ELSE alt_complete_tags(i, Tail(tags))])

AnnotationSuffix(s) ==
    CASE s = <<"!", "!">> -> "Brilliant"
      [] s = <<"!">> -> "Strong"
      [] s = <<"?", "?">> -> "Blunder"
      [] s = <<"?">> -> "Mistake"
      [] s = <<"!", "?">> -> "Interesting"
      [] s = <<"?", "!">> -> "Dubious"
      [] OTHER -> "None"

\* An annotation parser that tries the one-character tags first: with it in
\* place of san_move_annotation a two-character annotation is read as its
\* first character.
san_move_annotation_short_first(i) ==
    Only([r \in {alt_complete_tags(i, << <<"!">>, <<"?">>, <<"!", "!">>,
                                   <<"?", "?">>, <<"?", "!">>, <<"!", "?">> >>)} |->
      map(r, AnnotationSuffix(r.val))])

san_move_annotation(i) ==
    Only([r \in {alt_complete_tags(i, << <<"!", "!">>, <<"?", "?">>, <<"?", "!">>,
                                   <<"!", "?">>, <<"!">>, <<"?">> >>)} |->
      map(r, AnnotationSuffix(r.val))])

san_square(i) ==
    Only([file \in {san_file(i)} |->
      IF file.st # "Done" THEN file ELSE
      Only([rank \in {san_rank(file.rest)} |->
        IF rank.st # "Done" THEN rank ELSE
        Done(rank.rest, make_square(file.val, rank.val))])])

whitespace(i) == one_of(i, Whitespace)

OrElse(o, d) == IF IsSome(o) THEN o[1] ELSE d

san_pawn_move_bare(i) ==
    Only([square \in {complete(san_square(i))} |->
      IF square.st # "Done" THEN square ELSE
      Only([w \in {whitespace(square.rest)} |->
        IF w.st # "Done" THEN w ELSE
        Done(w.rest, NodeMove(PAWN, SourceNone, "Move", square.val,
                              PromotionNone, "None", "None"))])])

san_pawn_capture_bare(i) ==
    Only([file \in {complete(san_file(i))} |->
      IF file.st # "Done" THEN file ELSE
      Only([capture \in {complete(san_capture(file.rest))} |->
        IF capture.st # "Done" THEN capture ELSE
        Only([square \in {complete(san_square(capture.rest))} |->
          IF square.st # "Done" THEN square ELSE
          Only([w \in {whitespace(square.rest)} |->
            IF w.st # "Done" THEN w ELSE
            Done(w.rest, NodeMove(PAWN, SourceFile(file.val), capture.val, square.val,
                                  PromotionNone, "None", "None"))])])])])

\* The (promotion, promotion_piece) match of san_pawn_move and san_pawn_capture.
PromotionOf(promotion, promotion_piece) ==
    IF IsSome(promotion) /\ IsSome(promotion_piece)
    THEN PromotionPieceType(promotion_piece[1])
    ELSE PromotionNone

\* The optional tail shared by the full forms: every opt!(complete!(..)) is Done.
san_pawn_move(i) ==
    Only([square \in {complete(san_square(i))} |->
      IF square.st # "Done" THEN square ELSE
      Only([promotion \in {opt(square.rest, complete(san_promotion(square.rest)))} |->
        Only([promotion_piece \in {opt(promotion.rest, complete(san_piece(promotion.rest)))} |->
          Only([check \in {opt(promotion_piece.rest, complete(san_check(promotion_piece.rest)))} |->
            Only([annotation \in {opt(check.rest, complete(san_move_annotation(check.rest)))} |->
              Done(annotation.rest,
                   NodeMove(PAWN, SourceNone, "Move", square.val,
                            PromotionOf(promotion.val, promotion_piece.val),
                            OrElse(check.val, "None"), OrElse(annotation.val, "None")))])])])])])

san_pawn_capture(i) ==
    Only([file \in {complete(san_file(i))} |->
      IF file.st # "Done" THEN file ELSE
      Only([capture \in {complete(san_capture(file.rest))} |->
        IF capture.st # "Done" THEN capture ELSE
        Only([square \in {complete(san_square(capture.rest))} |->
          IF square.st # "Done" THEN square ELSE
          Only([promotion \in {opt(square.rest, complete(san_promotion(square.rest)))} |->
            Only([promotion_piece \in {opt(promotion.rest, complete(san_piece(promotion.rest)))} |->
              Only([check \in {opt(promotion_piece.rest, complete(san_check(promotion_piece.rest)))} |->
                Only([annotation \in {opt(check.rest, complete(san_move_annotation(check.rest)))} |->
                  Done(annotation.rest,
                       NodeMove(PAWN, SourceFile(file.val), capture.val, square.val,
                                PromotionOf(promotion.val, promotion_piece.val),
                                OrElse(check.val, "None"), OrElse(annotation.val, "None")))])])])])])])])

san_piece_move_bare(i) ==
    Only([piece \in {complete(san_piece(i))} |->
      IF piece.st # "Done" THEN piece ELSE
      Only([square \in {complete(san_square(piece.rest))} |->
        IF square.st # "Done" THEN square ELSE
        Only([w \in {whitespace(square.rest)} |->
          IF w.st # "Done" THEN w ELSE
          Done(w.rest, NodeMove(piece.val, SourceNone, "Move", square.val,
                                PromotionNone, "None", "None"))])])])

\* The match (file, rank, square) of san_piece_move.
PieceMoveNode(piece, file, rank, capture, square, check, annotation) ==
    CASE IsSome(file) /\ IsSome(rank) /\ ~IsSome(square) ->
           NodeMove(piece, SourceNone, capture, make_square(file[1], rank[1]),
                    PromotionNone, check, annotation)
      [] ~IsSome(file) /\ ~IsSome(rank) /\ IsSome(square) ->
           NodeMove(piece, SourceNone, capture, square[1],
                    PromotionNone, check, annotation)
      [] IsSome(file) /\ ~IsSome(rank) /\ IsSome(square) ->
           NodeMove(piece, SourceFile(file[1]), capture, square[1],
                    PromotionNone, check, annotation)
      [] ~IsSome(file) /\ IsSome(rank) /\ IsSome(square) ->
           NodeMove(piece, SourceRank(rank[1]), capture, square[1],
                    PromotionNone, check, annotation)
      [] IsSome(file) /\ IsSome(rank) /\ IsSome(square) ->
           NodeMove(piece, SourceSquare(make_square(file[1], rank[1])), capture,
                    square[1], PromotionNone, check, annotation)
      [] OTHER -> InvalidMove

san_piece_move(i) ==
    Only([piece \in {complete(san_piece(i))} |->
      IF piece.st # "Done" THEN piece ELSE
      Only([file \in {opt(piece.rest, complete(san_file(piece.rest)))} |->
        Only([rank \in {opt(file.rest, complete(san_rank(file.rest)))} |->
          Only([capture \in {opt(rank.rest, complete(san_capture(rank.rest)))} |->
            Only([square \in {opt(capture.rest, complete(san_square(capture.rest)))} |->
              Only([check \in {opt(square.rest, complete(san_check(square.rest)))} |->
                Only([annotation \in {opt(check.rest, complete(san_move_annotation(check.rest)))} |->
                  Done(annotation.rest,
                       PieceMoveNode(piece.val, file.val, rank.val,
                                     OrElse(capture.val, "Move"), square.val,
                                     OrElse(check.val, "None"),
                                     OrElse(annotation.val, "None")))])])])])])])])

\* alt_complete!: the first alternative, in the order written, that is Done.
FirstDone(rs) ==
    IF \E k \in 1..Len(rs) : rs[k].st = "Done"
    THEN rs[CHOOSE k \in 1..Len(rs) :
                rs[k].st = "Done" /\ \A j \in 1..(k - 1) : rs[j].st # "Done"]
    ELSE Error

san_explicit_move(i) ==
    FirstDone(<< san_pawn_move_bare(i),
                 san_piece_move_bare(i),
                 san_pawn_capture_bare(i),
                 san_pawn_move(i),
                 san_piece_move(i),
                 san_pawn_capture(i) >>)

\* The check? annotation? tail of the castling and null-move forms.
SuffixNode(kind, i) ==
    Only([check \in {opt(i, complete(san_check(i)))} |->
      Only([annotation \in {opt(check.rest, complete(san_move_annotation(check.rest)))} |->
        Done(annotation.rest,
             NodeOther(kind, OrElse(check.val, "None"), OrElse(annotation.val, "None")))])])

san_null_move(i) ==
    LET t == alt_complete_tags(i, << <<"-", "-">>, <<"Z", "0">>, <<"z", "0">> >>) IN
    IF t.st # "Done" THEN t ELSE SuffixNode("NullMove", t.rest)

san_castle_king_side(i) ==
    LET t == tag(i, <<"O", "-", "O">>) IN
    IF t.st # "Done" THEN t ELSE SuffixNode("CastleKingSide", t.rest)

san_castle_queen_side(i) ==
    LET t == tag(i, <<"O", "-", "O", "-", "O">>) IN
    IF t.st # "Done" THEN t ELSE SuffixNode("CastleQueenSide", t.rest)

\* A san_move that tries the king side before the queen side: with it in
\* place of san_move, O-O-O is read as O-O with -O left over.
san_move_king_side_first(i) ==
    FirstDone(<< san_explicit_move(i),
                 san_castle_king_side(i),
                 san_castle_queen_side(i),
                 san_null_move(i) >>)

san_move(i) ==
    FirstDone(<< san_explicit_move(i),
                 san_castle_queen_side(i),
                 san_castle_king_side(i),
                 san_null_move(i) >>)

(***************************************************************************)
(* src/parser/bom.rs: the UTF-8 byte-order mark, bytes EF BB BF.           *)
(***************************************************************************)
BOM == <<"EF", "BB", "BF">>

utf_8_bom(i) == tag(i, BOM)

(***************************************************************************)
(* src/parser/pgn.rs                                                       *)
(***************************************************************************)
\* pgn::Tag; key is kept only by Tag::Other.
Tag(kind, key, value) == [kind |-> kind, key |-> key, value |-> value]

\* pgn::Node
PgnNode(kind, text, num, periods, mv) ==
    [kind |-> kind, text |-> text, num |-> num, periods |-> periods, mv |-> mv]

StartVariation == PgnNode("StartVariation", <<>>, 0, "None", InvalidMove)

EndVariation == PgnNode("EndVariation", <<>>, 0, "None", InvalidMove)

Comment(text) == PgnNode("Comment", text, 0, "None", InvalidMove)

Nag(n) == PgnNode("Nag", <<>>, n, "None", InvalidMove)

MoveNumber(n, periods) == PgnNode("MoveNumber", <<>>, n, periods, InvalidMove)

Move(mv) == PgnNode("Move", <<>>, 0, "None", mv)

\* pgn::Game
Game(tags, nodes, result) == [tags |-> tags, nodes |-> nodes, result |-> result]

\* escaped!(is_not!("\\\""), '\\', one_of!("\"\\")): index counts the bytes
\* taken so far.  A match of no byte at all is an Error.
RECURSIVE escaped(_, _)
escaped(i, index) ==
    IF index >= Len(i) THEN Done(Drop(i, index), Take(i, index))
    ELSE LET normal == is_not(Drop(i, index), {"\\", "\""}) IN
         IF normal.st = "Done"
         THEN IF normal.rest = <<>> THEN Done(<<>>, i)
              ELSE escaped(i, Len(i) - Len(normal.rest))
         ELSE IF i[index + 1] = "\\"
         THEN IF index + 1 >= Len(i) THEN Error
              ELSE LET escapable == one_of(Drop(i, index + 1), {"\"", "\\"}) IN
                   IF escapable.st # "Done" THEN escapable
                   ELSE IF escapable.rest = <<>> THEN Done(<<>>, i)
                   ELSE escaped(i, Len(i) - Len(escapable.rest))
         ELSE IF index = 0 THEN Error
         ELSE Done(Drop(i, index), Take(i, index))

string_token(i) ==
    Only([open \in {char(i, "\"")} |->
      IF open.st # "Done" THEN open ELSE
      Only([body \in {escaped(open.rest, 0)} |->
        IF body.st # "Done" THEN body ELSE
        Only([close \in {char(body.rest, "\"")} |->
          IF close.st # "Done" THEN close ELSE
          Done(close.rest, body.val)])])])

Digits == {"0", "1", "2", "3", "4", "5", "6", "7", "8", "9"}

\* nom::digit: one or more decimal digits; Incomplete on empty input only.
digit(i) ==
    IF i = <<>> THEN Incomplete
    ELSE LET p == FirstNotIn(i, Digits) IN
         IF p = 1 THEN Error
         ELSE IF p = 0 THEN Done(<<>>, i)
         ELSE Done(Drop(i, p - 1), Take(i, p - 1))

DigitValue(c) ==
    CASE c = "0" -> 0 [] c = "1" -> 1 [] c = "2" -> 2 [] c = "3" -> 3
      [] c = "4" -> 4 [] c = "5" -> 5 [] c = "6" -> 6 [] c = "7" -> 7
      [] c = "8" -> 8 [] c = "9" -> 9

\* u64::from_str on a run of digits (the inputs here stay far below 2^64).
RECURSIVE from_str(_)
from_str(ds) ==
    IF ds = <<>> THEN 0
    ELSE from_str(Take(ds, Len(ds) - 1)) * 10 + DigitValue(ds[Len(ds)])

integer_token(i) ==
    Only([r \in {ws(digit(skip(i)))} |->
      map(r, from_str(r.val))])

period_token(i) == tag(i, <<".">>)

open_bracket_token(i) == tag(i, <<"[">>)

close_bracket_token(i) == tag(i, <<"]">>)

open_parenthesis_token(i) == tag(i, <<"(">>)

close_parenthesis_token(i) == tag(i, <<")">>)

\* preceded!(tag!("%"), is_not!("\n"))
escape_comment(i) ==
    Only([t \in {tag(i, <<"%">>)} |->
      IF t.st # "Done" THEN t ELSE is_not(t.rest, {"\n"})])

nag_token(i) ==
    Only([t \in {char(i, "$")} |->
      IF t.st # "Done" THEN t ELSE integer_token(t.rest)])

SymbolChars ==
    Digits \cup
    {"a", "b", "c", "d", "e", "f", "g", "h", "i", "j", "k", "l", "m",
     "n", "o", "p", "q", "r", "s", "t", "u", "v", "w", "x", "y", "z",
     "A", "B", "C", "D", "E", "F", "G", "H", "I", "J", "K", "L", "M",
     "N", "O", "P", "Q", "R", "S", "T", "U", "V", "W", "X", "Y", "Z",
     "#", "=", ":", "+", "_", "-"}

symbol_token(i) == is_a(i, SymbolChars)

\* The closure of tag_pair: the key selects the variant.
TagOf(key, value) ==
    CASE key = <<"E", "v", "e", "n", "t">> -> Tag("Event", <<>>, value)
      [] key = <<"S", "i", "t", "e">> -> Tag("Site", <<>>, value)
      [] key = <<"D", "a", "t", "e">> -> Tag("Date", <<>>, value)
      [] key = <<"R", "o", "u", "n", "d">> -> Tag("Round", <<>>, value)
      [] key = <<"W", "h", "i", "t", "e">> -> Tag("White", <<>>, value)
      [] key = <<"B", "l", "a", "c", "k">> -> Tag("Black", <<>>, value)
      [] key = <<"R", "e", "s", "u", "l", "t">> -> Tag("Result", <<>>, value)
      [] OTHER -> Tag("Other", key, value)

\* ws!(do_parse!(..)): the separator is eaten around every element.
tag_pair(i) ==
    Only([open \in {ws(open_bracket_token(skip(i)))} |->
      IF open.st # "Done" THEN open ELSE
      Only([key \in {ws(symbol_token(skip(open.rest)))} |->
        IF key.st # "Done" THEN key ELSE
        Only([value \in {ws(string_token(skip(key.rest)))} |->
          IF value.st # "Done" THEN value ELSE
          Only([close \in {ws(close_bracket_token(skip(value.rest)))} |->
            IF close.st # "Done" THEN close ELSE
            Done(skip(close.rest), TagOf(key.val, value.val))])])])])

\* ws!(many0!(tag_pair)) is many0!(ws!(tag_pair)).
RECURSIVE tag_list_from(_, _)
tag_list_from(i, res) ==
    IF i = <<>> THEN Done(i, res)
    ELSE Only([r \in {ws(tag_pair(skip(i)))} |->
      IF r.st = "Error" THEN Done(i, res)
      ELSE IF r.st = "Incomplete" THEN Incomplete
      ELSE IF r.rest = i THEN Error
      ELSE tag_list_from(r.rest, Append(res, r.val))])

tag_list(i) == tag_list_from(i, <<>>)

\* A commentary_token whose text also stops at a newline: with it in place of
\* commentary_token a comment is no longer kept verbatim.
commentary_token_one_line(i) ==
    Only([open \in {char(i, "{")} |->
      IF open.st # "Done" THEN open ELSE
      Only([body \in {is_not(open.rest, {"}", "\n"})} |->
        IF body.st # "Done" THEN body ELSE
        Only([close \in {char(body.rest, "}")} |->
          IF close.st # "Done" THEN close ELSE
          Done(close.rest, body.val)])])])

\* delimited!(char!('{'), is_not!("}"), char!('}'))
commentary_token(i) ==
    Only([open \in {char(i, "{")} |->
      IF open.st # "Done" THEN open ELSE
      Only([body \in {is_not(open.rest, {"}"})} |->
        IF body.st # "Done" THEN body ELSE
        Only([close \in {char(body.rest, "}")} |->
          IF close.st # "Done" THEN close ELSE
          Done(close.rest, body.val)])])])

ResultOf(t) ==
    CASE t = <<"1", "-", "0">> -> "WhiteWin"
      [] t = <<"0", "-", "1">> -> "BlackWin"
      [] t = <<"1", "/", "2", "-", "1", "/", "2">> -> "Draw"
      [] OTHER -> "Other"

WhiteWinTag(i) == tag(i, <<"1", "-", "0">>)

BlackWinTag(i) == tag(i, <<"0", "-", "1">>)

DrawTag(i) == tag(i, <<"1", "/", "2", "-", "1", "/", "2">>)

OtherTag(i) == tag(i, <<"*">>)

game_result(i) ==
    Only([r \in {FirstDone(<< complete(ws(WhiteWinTag(skip(i)))),
                        complete(ws(BlackWinTag(skip(i)))),
                        complete(ws(DrawTag(skip(i)))),
                        complete(ws(OtherTag(skip(i)))) >>)} |->
      map(r, ResultOf(r.val))])

\* many0!(period_token): the number of "." bytes that follow.
RECURSIVE many0_period(_, _)
many0_period(i, res) ==
    IF i = <<>> THEN Done(i, res)
    ELSE Only([r \in {period_token(i)} |->
      IF r.st = "Error" THEN Done(i, res)
      ELSE IF r.st = "Incomplete" THEN Incomplete
      ELSE many0_period(r.rest, Append(res, r.val))])

\* A closure that calls every run of three or more periods Three: with it in
\* place of PeriodsOf a run of four is no longer Other.
PeriodsOfAtLeastThree(periods) ==
    IF IsSome(periods)
    THEN CASE Len(periods[1]) = 1 -> "One"
           [] Len(periods[1]) >= 3 -> "Three"
           [] Len(periods[1]) = 0 -> "None"
           [] OTHER -> "Other"
    ELSE "None"

PeriodsOf(periods) ==
    IF IsSome(periods)
    THEN CASE Len(periods[1]) = 1 -> "One"
           [] Len(periods[1]) = 3 -> "Three"
           [] Len(periods[1]) = 0 -> "None"
           [] OTHER -> "Other"
    ELSE "None"

CompleteInteger(i) == complete(integer_token(i))

CompletePeriods(i) == complete(many0_period(i, <<>>))

move_number(i) ==
    Only([num \in {ws(CompleteInteger(skip(i)))} |->
      IF num.st # "Done" THEN num ELSE
      Only([periods \in {opt(num.rest, ws(CompletePeriods(skip(num.rest))))} |->
        IF periods.st # "Done" THEN periods ELSE
        Done(periods.rest, MoveNumber(num.val, PeriodsOf(periods.val)))])])

ToStartVariation(x) == StartVariation

\* A closure that marks ')' as the start of a variation: with it in place of
\* ToEndVariation the two markers can no longer be told apart.
ToSameVariation(x) == StartVariation

ToEndVariation(x) == EndVariation

CompleteSanMove(i) == complete(san_move(i))

game_node(i) ==
    Only([open \in {ws(open_parenthesis_token(skip(i)))} |->
    Only([close \in {ws(close_parenthesis_token(skip(i)))} |->
    Only([nag \in {ws(nag_token(skip(i)))} |->
    Only([commentary \in {ws(commentary_token(skip(i)))} |->
    Only([number \in {move_number(i)} |->
    Only([san \in {ws(CompleteSanMove(skip(i)))} |->
      FirstDone(<< complete(map(open, ToStartVariation(open.val))),
                   complete(map(close, ToEndVariation(close.val))),
                   complete(map(nag, Nag(nag.val))),
                   complete(map(commentary, Comment(commentary.val))),
                   complete(number),
                   complete(map(san, Move(san.val))) >>)])])])])])])

\* many_till!(game_node, game_result)
RECURSIVE many_till_result(_, _)
many_till_result(i, res) ==
    Only([r \in {game_result(i)} |->
      IF r.st = "Done" THEN Done(r.rest, <<res, r.val>>) ELSE
      Only([n \in {game_node(i)} |->
        IF n.st # "Done" THEN n
        ELSE IF n.rest = i THEN Error
        ELSE many_till_result(n.rest, Append(res, n.val))])])

\* A many_till! that returns what it has read when a node fails: with it in
\* place of game_node_list_with_result a structural error yields a partial game.
RECURSIVE many_till_partial(_, _)
many_till_partial(i, res) ==
    Only([r \in {game_result(i)} |->
      IF r.st = "Done" THEN Done(r.rest, <<res, r.val>>) ELSE
      Only([n \in {game_node(i)} |->
        IF n.st # "Done" \/ n.rest = i THEN Done(i, <<res, "Other">>)
        ELSE many_till_partial(n.rest, Append(res, n.val))])])

game_node_list_partial(i) == many_till_partial(i, <<>>)

\* A many_till! that tries the node before the result: with it in place of
\* game_node_list_with_result the digit of a result token reads as a move
\* number.
RECURSIVE many_till_node_first(_, _)
many_till_node_first(i, res) ==
    Only([n \in {game_node(i)} |->
      IF n.st = "Done" /\ n.rest # i
      THEN many_till_node_first(n.rest, Append(res, n.val))
      ELSE Only([r \in {game_result(i)} |->
        IF r.st = "Done" THEN Done(r.rest, <<res, r.val>>) ELSE Error])])

game_node_list_node_first(i) == many_till_node_first(i, <<>>)

game_node_list_with_result(i) == many_till_result(i, <<>>)

\* many0!(escape_comment); the parsed lines are dropped.
RECURSIVE many0_escape_comment(_)
many0_escape_comment(i) ==
    IF i = <<>> THEN Done(i, <<>>)
    ELSE Only([r \in {escape_comment(i)} |->
      IF r.st = "Error" THEN Done(i, <<>>)
      ELSE IF r.st = "Incomplete" THEN Incomplete
      ELSE IF r.rest = i THEN Error
      ELSE many0_escape_comment(r.rest)])

game(i) ==
    Only([e1 \in {many0_escape_comment(i)} |->
      IF e1.st # "Done" THEN e1 ELSE
      Only([tags \in {ws(tag_list(skip(e1.rest)))} |->
        IF tags.st # "Done" THEN tags ELSE
        Only([e2 \in {many0_escape_comment(tags.rest)} |->
          IF e2.st # "Done" THEN e2 ELSE
          Only([nodes_with_result \in {ws(game_node_list_with_result(skip(e2.rest)))} |->
            IF nodes_with_result.st # "Done" THEN nodes_with_result ELSE
            Done(nodes_with_result.rest,
                 Game(tags.val, nodes_with_result.val[1], nodes_with_result.val[2]))])])])])

\* many0!(game)
RECURSIVE many0_game(_, _)
many0_game(i, res) ==
    IF i = <<>> THEN Done(i, res)
    ELSE Only([r \in {game(i)} |->
      IF r.st = "Error" THEN Done(i, res)
      ELSE IF r.st = "Incomplete" THEN Incomplete
      ELSE IF r.rest = i THEN Error
      ELSE many0_game(r.rest, Append(res, r.val))])

pgn(i) ==
    Only([bom \in {opt(i, utf_8_bom(i))} |->
      IF bom.st # "Done" THEN bom ELSE many0_game(bom.rest, <<>>)])

(***************************************************************************)
(* SAN tokens: a token is the concatenation of its fragments.              *)
(***************************************************************************)
PieceFrags == {<<>>, <<"N">>, <<"B">>, <<"R">>, <<"Q">>, <<"K">>}

FileFrags == {<<>>, <<"b">>, <<"e">>}

RankFrags == {<<>>, <<"1">>, <<"7">>}

CaptureFrags == {<<>>, <<"x">>}

SquareFrags == {<<>>, <<"a", "3">>, <<"f", "6">>}

PromotionFrags == {<<>>, <<"=", "R">>}

CheckFrags == {<<>>, <<"+">>, <<"#">>}

AnnotationFrags == {<<>>, <<"!">>, <<"?", "!">>}

TrailFrags == {<<>>, <<" ">>}

SanToken(m) ==
    m.piece \o m.file \o m.rank \o m.capture \o m.square \o m.promotion
        \o m.check \o m.annotation

InitSan ==
    /\ meta \in [piece : PieceFrags, file : FileFrags, rank : RankFrags,
                 capture : CaptureFrags, square : SquareFrags,
                 promotion : PromotionFrags, check : CheckFrags,
                 annotation : AnnotationFrags, trail : TrailFrags]
    /\ (meta.promotion # <<>> => meta.piece = <<>>)
    /\ input = SanToken(meta) \o meta.trail
    /\ out = NoResult
    /\ pc = "san_move"

ParseSanMove ==
    /\ pc = "san_move"
    /\ out' = san_move(input)
    /\ pc' = "done"
    /\ UNCHANGED <<input, meta>>

NextSan == ParseSanMove

SpecSan == InitSan /\ [][NextSan]_vars

\* What the fragments of a piece-move token denote, read off the fragments
\* themselves and not off the parse.
FragPiece(m) == PieceLetter(m.piece[1])

FragFile(m) == FileLetter(m.file[1])

FragRank(m) == RankDigit(m.rank[1])

FragSquare(m) == make_square(FileLetter(m.square[1]), RankDigit(m.square[2]))

FragCapture(m) == IF m.capture = <<>> THEN "Move" ELSE "Capture"

FragCheck(m) == IF m.check = <<>> THEN "None" ELSE CheckLetter(m.check[1])

FragAnnotation(m) == AnnotationSuffix(m.annotation)

\* A piece-move token of the disambiguation table: piece letter, optional
\* file, rank, 'x' and destination square, nothing after it.
IsPieceMoveToken(m) ==
    /\ m.piece # <<>>
    /\ m.promotion = <<>> /\ m.check = <<>> /\ m.annotation = <<>>
    /\ m.trail = <<>>

DisambiguatedMove(m) ==
    LET f == m.file # <<>>
        r == m.rank # <<>>
        q == m.square # <<>>
        mv(src, sq) == NodeMove(FragPiece(m), src, FragCapture(m), sq,
                                PromotionNone, "None", "None")
    IN CASE f /\ r /\ ~q -> mv(SourceNone, make_square(FragFile(m), FragRank(m)))
         [] ~f /\ ~r /\ q -> mv(SourceNone, FragSquare(m))
         [] f /\ ~r /\ q -> mv(SourceFile(FragFile(m)), FragSquare(m))
         [] ~f /\ r /\ q -> mv(SourceRank(FragRank(m)), FragSquare(m))
         [] f /\ r /\ q ->
              mv(SourceSquare(make_square(FragFile(m), FragRank(m))), FragSquare(m))
         [] OTHER -> InvalidMove

\* C1: for a piece-move token at end of input (piece letter N, B, R, Q or K,
\* then optional file, rank, 'x' and destination square) san_move returns the
\* node of the disambiguation table: file+rank without a further square is a
\* destination with Source::None, a lone square is the destination, file+square
\* gives Source::File, rank+square Source::Rank, file+rank+square
\* Source::Square, every other combination InvalidMove, and the move is a
\* Capture exactly when 'x' is present.
C1_SourceDisambiguation ==
    (pc = "done" /\ IsPieceMoveToken(meta))
        => (out.st = "Done" /\ out.val = DisambiguatedMove(meta))

\* A well-formed move token: a piece move whose fragments name a destination,
\* a pawn move (square, optional promotion) or a pawn capture (file, 'x',
\* square, optional promotion), each with any check and annotation suffix.
IsWellFormedToken(m) ==
    IF m.piece # <<>>
    THEN DisambiguatedMove([m EXCEPT !.check = <<>>, !.annotation = <<>>,
                                     !.trail = <<>>]) # InvalidMove
    ELSE /\ m.square # <<>>
         /\ m.rank = <<>>
         /\ (m.file # <<>>) <=> (m.capture # <<>>)

LeadingPieceType(m) == IF m.piece = <<>> THEN PAWN ELSE FragPiece(m)

\* C2: for every well-formed move token, at end of input or followed by
\* whitespace, san_move returns a Move whose piece type is the one of the
\* leading upper-case letter, or PAWN when the piece letter is omitted, and
\* the whole token is consumed.
C2_PieceTypeFromLeadingLetter ==
    (pc = "done" /\ IsWellFormedToken(meta))
        => /\ out.st = "Done"
           /\ out.val.kind = "Move"
           /\ out.val.pt = LeadingPieceType(meta)
           /\ Len(out.rest) <= Len(meta.trail)

(***************************************************************************)
(* Movetext: a game text is an optional tag, then tokens each followed by  *)
(* one blank.  The tokens are kept in meta, so that what a text denotes is *)
(* read off the tokens and not off the parse.                              *)
(***************************************************************************)
MaxNodes == 3

BoundedSeq(S, n) == UNION {[1..k -> S] : k \in 0..n}

RECURSIVE JoinTokens(_)
JoinTokens(toks) ==
    IF toks = <<>> THEN <<>>
    ELSE Head(toks) \o <<" ">> \o JoinTokens(Tail(toks))

TokStart == <<"(">>

TokEnd == <<")">>

TokComment == <<"{", "a", " ", "b", "}">>

TokNag == <<"$", "3">>

TokNumber == <<"1", ".">>

TokPawn == <<"e", "4">>

TokKnight == <<"N", "f", "3">>

TokLonePiece == <<"N">>

TokBad == <<"e", "9">>

TokWhiteWin == <<"1", "-", "0">>

TokBlackWin == <<"0", "-", "1">>

TokDraw == <<"1", "/", "2", "-", "1", "/", "2">>

TokOther == <<"*">>

ResultTokens == {TokWhiteWin, TokBlackWin, TokDraw, TokOther}

\* The node a well-formed token stands for.
ExpectedNode(t) ==
    CASE t = TokStart -> StartVariation
      [] t = TokEnd -> EndVariation
      [] t = TokComment -> Comment(<<"a", " ", "b">>)
      [] t = TokNag -> Nag(3)
      [] t = TokNumber -> MoveNumber(1, "One")
      [] t = TokPawn ->
           Move(NodeMove(PAWN, SourceNone, "Move", 28, PromotionNone, "None", "None"))
      [] t = TokKnight ->
           Move(NodeMove(KNIGHT, SourceNone, "Move", 21, PromotionNone, "None", "None"))
      [] OTHER -> Move(InvalidMove)

ExpectedResult(t) ==
    CASE t = TokWhiteWin -> "WhiteWin"
      [] t = TokBlackWin -> "BlackWin"
      [] t = TokDraw -> "Draw"
      [] t = TokOther -> "Other"

ExpectedNodes(toks) == [k \in 1..Len(toks) |-> ExpectedNode(toks[k])]

\* Index of the first result token of toks, or 0.
FirstResult(toks) ==
    IF \E k \in 1..Len(toks) : toks[k] \in ResultTokens
    THEN CHOOSE k \in 1..Len(toks) :
             toks[k] \in ResultTokens /\ \A j \in 1..(k - 1) : toks[j] \notin ResultTokens
    ELSE 0

\* The tokens before the first result token.
Movetext(toks) == SubSeq(toks, 1, FirstResult(toks) - 1)

AfterResult(toks) == SubSeq(toks, FirstResult(toks) + 1, Len(toks))

ResultTagText ==
    <<"[", "R", "e", "s", "u", "l", "t", " ", "\"", "1", "-", "0", "\"", "]", "\n">>

GameTokens ==
    {TokStart, TokComment, TokNag, TokNumber, TokPawn, TokKnight, TokLonePiece,
     TokBad, TokWhiteWin, TokOther}

InitGame ==
    /\ meta \in [tags : {<<>>, ResultTagText},
                 toks : BoundedSeq(GameTokens, MaxNodes),
                 last : {<<>>, <<TokBlackWin>>, <<TokDraw>>}]
    /\ input = meta.tags \o JoinTokens(meta.toks \o meta.last)
    /\ out = NoResult
    /\ pc = "game"

ParseGame ==
    /\ pc = "game"
    /\ out' = game(input)
    /\ pc' = "done"
    /\ UNCHANGED <<input, meta>>

NextGame == ParseGame

SpecGame == InitGame /\ [][NextGame]_vars

AllTokens(m) == m.toks \o m.last

WellFormedTokens == {TokStart, TokEnd, TokComment, TokNag, TokNumber, TokPawn, TokKnight}

ExpectedTags(m) ==
    IF m.tags = <<>> THEN <<>> ELSE <<Tag("Result", <<>>, TokWhiteWin)>>

\* C3: when the movetext of an otherwise well-formed game holds one token
\* that is not a valid SAN move, game still succeeds, the nodes hold
\* Move(InvalidMove) at that token's position and every other node and the
\* result are produced as usual.
C3_MalformedSanDegrades ==
    LET toks == AllTokens(meta)
        mt == Movetext(toks)
    IN (/\ pc = "done"
        /\ FirstResult(toks) # 0
        /\ Cardinality({k \in 1..Len(mt) : mt[k] \notin WellFormedTokens}) = 1)
           => /\ out.st = "Done"
              /\ out.val.nodes = ExpectedNodes(mt)
              /\ out.val.result = ExpectedResult(toks[FirstResult(toks)])

\* C5: game ends at the first result token met at a node boundary; the
\* result is the one that token maps to ('1-0' WhiteWin, '0-1' BlackWin,
\* '1/2-1/2' Draw, '*' Other) whatever the Result tag says, the nodes are
\* exactly those of the tokens before it, in order, and what follows the
\* result token is left unread.
C5_GameEndsAtFirstResult ==
    LET toks == AllTokens(meta)
        mt == Movetext(toks)
    IN (/\ pc = "done"
        /\ FirstResult(toks) # 0
        /\ \A k \in 1..Len(mt) : mt[k] \in WellFormedTokens)
           => /\ out.st = "Done"
              /\ out.val.result = ExpectedResult(toks[FirstResult(toks)])
              /\ out.val.nodes = ExpectedNodes(mt)
              /\ out.val.tags = ExpectedTags(meta)
              /\ out.rest = JoinTokens(AfterResult(toks))

\* A move number precedes a result token that starts with a digit, the Result
\* tag names another result, and tokens follow the result.
C5_Witness ==
    LET toks == AllTokens(meta)
        mt == Movetext(toks)
    IN /\ pc = "done"
       /\ FirstResult(toks) # 0
       /\ mt = <<TokNumber, TokPawn>>
       /\ toks[FirstResult(toks)] = TokDraw
       /\ meta.tags = ResultTagText
       /\ out.st = "Done"
       /\ out.val.result = "Draw"

(***************************************************************************)
(* Variations: movetext of parentheses and moves, with or without the      *)
(* result token.                                                           *)
(***************************************************************************)
MaxVariationNodes == 5

VariationTokens == {TokStart, TokEnd, TokPawn}

InitVariation ==
    /\ meta \in [toks : BoundedSeq(VariationTokens, MaxVariationNodes),
                 last : {<<>>, <<TokOther>>}]
    /\ input = JoinTokens(meta.toks \o meta.last)
    /\ out = NoResult
    /\ pc = "variation"

ParseVariation ==
    /\ pc = "variation"
    /\ out' = game(input)
    /\ pc' = "done"
    /\ UNCHANGED <<input, meta>>

NextVariation == ParseVariation

SpecVariation == InitVariation /\ [][NextVariation]_vars

NodeKinds ==
    {"StartVariation", "EndVariation", "Comment", "Nag", "MoveNumber", "Move"}

\* C8: each '(' of the movetext yields one StartVariation node and each ')'
\* one EndVariation node at the position of the parenthesis, the nodes written
\* inside appear between the markers in input order, any nesting is accepted
\* and no node is a nested Variation value.
C8_VariationsAreFlat ==
    (pc = "done" /\ meta.last # <<>>)
        => /\ out.st = "Done"
           /\ Len(out.val.nodes) = Len(meta.toks)
           /\ \A k \in 1..Len(meta.toks) :
                /\ (meta.toks[k] = TokStart) <=> (out.val.nodes[k] = StartVariation)
                /\ (meta.toks[k] = TokEnd) <=> (out.val.nodes[k] = EndVariation)
                /\ out.val.nodes[k] = ExpectedNode(meta.toks[k])
                /\ out.val.nodes[k].kind \in NodeKinds

\* A variation nested inside a variation that holds a move.
C8_Witness ==
    /\ pc = "done"
    /\ meta.toks = <<TokStart, TokPawn, TokStart, TokEnd, TokEnd>>
    /\ meta.last # <<>>
    /\ out.st = "Done"
    /\ out.val.nodes[3] = StartVariation

CountKind(nodes, kind, n) == Cardinality({k \in 1..n : nodes[k].kind = kind})

Balanced(nodes) ==
    /\ \A n \in 0..Len(nodes) :
         CountKind(nodes, "StartVariation", n) >= CountKind(nodes, "EndVariation", n)
    /\ CountKind(nodes, "StartVariation", Len(nodes))
         = CountKind(nodes, "EndVariation", Len(nodes))

\* C9: in every Game that game returns, every prefix of the nodes holds at
\* least as many StartVariation as EndVariation nodes and the totals are
\* equal: a ')' with no open '(' or a '(' still open at the result token
\* makes game fail.
C9_ParenthesesBalanced ==
    (pc = "done" /\ out.st = "Done") => Balanced(out.val.nodes)

(***************************************************************************)
(* Structural defects: a game text of a tag built from its parts (each     *)
(* bracket and quote present or missing), with or without a well-formed    *)
(* tag before and after it, movetext that may hold a comment without its   *)
(* closing brace, and the result token or none.                            *)
(***************************************************************************)
MaxFatalNodes == 2

TokOpenComment == <<"{", "a", " ", "b">>

FatalTokens == {TokComment, TokOpenComment, TokNumber, TokPawn}

SiteTagText == <<"[", "S", "i", "t", "e", " ", "\"", "?", "\"", "]", "\n">>

Part(present, bytes) == IF present THEN bytes ELSE <<>>

EventTagText(m) ==
    Part(m.lb, <<"[">>) \o <<"E", "v", "e", "n", "t", " ">> \o Part(m.q1, <<"\"">>)
        \o <<"x">> \o Part(m.q2, <<"\"">>) \o Part(m.rb, <<"]">>) \o <<"\n">>

InitFatal ==
    /\ meta \in [pre : BOOLEAN, post : BOOLEAN, lb : BOOLEAN, q1 : BOOLEAN,
                 q2 : BOOLEAN, rb : BOOLEAN,
                 toks : BoundedSeq(FatalTokens, MaxFatalNodes),
                 last : {<<>>, <<TokOther>>}]
    /\ input = Part(meta.pre, SiteTagText) \o EventTagText(meta)
                   \o Part(meta.post, SiteTagText)
                   \o JoinTokens(meta.toks \o meta.last)
    /\ out = NoResult
    /\ pc = "fatal"

ParseFatal ==
    /\ pc = "fatal"
    /\ out' = game(input)
    /\ pc' = "done"
    /\ UNCHANGED <<input, meta>>

NextFatal == ParseFatal

SpecFatal == InitFatal /\ [][NextFatal]_vars

MalformedTag(m) == ~(m.lb /\ m.q1 /\ m.q2 /\ m.rb)

\* A '{' that no '}' follows.
UnterminatedComment(m) ==
    \E k \in 1..Len(m.toks) :
        /\ m.toks[k] = TokOpenComment
        /\ \A j \in (k + 1)..Len(m.toks) : m.toks[j] # TokComment

MissingResult(m) == m.last = <<>>

\* C4: game fails, and returns no Game, whenever the game text has an
\* unterminated '{' comment, a tag pair with a missing bracket or quote, or
\* no result token after the movetext.
C4_StructuralErrorsAreFatal ==
    (pc = "done" /\ (MalformedTag(meta) \/ UnterminatedComment(meta) \/ MissingResult(meta)))
        => out.st \in {"Error", "Incomplete"}

\* A tag and a move parse, then a comment is left open before the result.
C4_Witness ==
    /\ pc = "done"
    /\ meta.pre /\ ~MalformedTag(meta)
    /\ meta.toks = <<TokPawn, TokOpenComment>>
    /\ ~MissingResult(meta)
    /\ out.st \in {"Error", "Incomplete"}

(***************************************************************************)
(* Comments: one movetext node '{' text '}' with or without blanks around. *)
(***************************************************************************)
MaxCommentLen == 3

CommentBytes == {"a", " ", "\n", "{", "\\"}

InitComment ==
    /\ meta \in [text : BoundedSeq(CommentBytes, MaxCommentLen),
                 lead : {<<>>, <<" ">>},
                 trail : {<<>>, <<"\n">>}]
    /\ input = meta.lead \o <<"{">> \o meta.text \o <<"}">> \o meta.trail
    /\ out = NoResult
    /\ pc = "game_node"

ParseGameNode ==
    /\ pc = "game_node"
    /\ out' = game_node(input)
    /\ pc' = "done"
    /\ UNCHANGED <<input, meta>>

NextComment == ParseGameNode

SpecComment == InitComment /\ [][NextComment]_vars

\* C7: for every non-empty text t without '}', the movetext node '{' t '}'
\* is Comment(t) with exactly the bytes between the braces; blanks outside
\* the braces are not part of the text.
C7_CommentVerbatim ==
    (pc = "done" /\ meta.text # <<>>)
        => /\ out.st = "Done"
           /\ out.rest = <<>>
           /\ out.val = Comment(meta.text)

\* A text with a blank at its start, a newline and a '{', blanks outside.
C7_Witness ==
    /\ pc = "done"
    /\ meta.text = <<" ", "\n", "{">>
    /\ meta.lead # <<>> /\ meta.trail # <<>>
    /\ out.st = "Done"
    /\ out.val.kind = "Comment"

(***************************************************************************)
(* Tag lists: pairs [Key "Value"], one per line.                           *)
(***************************************************************************)
MaxTags == 2

KnownKeys ==
    { <<<<"E", "v", "e", "n", "t">>, "Event">>,
      <<<<"S", "i", "t", "e">>, "Site">>,
      <<<<"D", "a", "t", "e">>, "Date">>,
      <<<<"R", "o", "u", "n", "d">>, "Round">>,
      <<<<"W", "h", "i", "t", "e">>, "White">>,
      <<<<"B", "l", "a", "c", "k">>, "Black">>,
      <<<<"R", "e", "s", "u", "l", "t">>, "Result">> }

TagKeys == {p[1] : p \in KnownKeys} \cup {<<"E", "C", "O">>, <<"e", "v", "e", "n", "t">>}

\* A plain value, a value holding an escaped quote, the empty value.
TagValues == {<<"?">>, <<"a", "\\", "\"", "b">>, <<>>}

TagPairText(p) ==
    <<"[">> \o p.key \o <<" ", "\"">> \o p.value \o <<"\"", "]", "\n">>

RECURSIVE TagListText(_)
TagListText(pairs) ==
    IF pairs = <<>> THEN <<>>
    ELSE TagPairText(Head(pairs)) \o TagListText(Tail(pairs))

InitTags ==
    /\ meta \in [pairs : BoundedSeq([key : TagKeys, value : TagValues], MaxTags)]
    /\ input = TagListText(meta.pairs)
    /\ out = NoResult
    /\ pc = "tag_list"

ParseTagList ==
    /\ pc = "tag_list"
    /\ out' = tag_list(input)
    /\ pc' = "done"
    /\ UNCHANGED <<input, meta>>

NextTags == ParseTagList

SpecTags == InitTags /\ [][NextTags]_vars

ExpectedTag(p) ==
    IF \E k \in KnownKeys : k[1] = p.key
    THEN Tag((CHOOSE k \in KnownKeys : k[1] = p.key)[2], <<>>, p.value)
    ELSE Tag("Other", p.key, p.value)

\* C6: tag_list returns exactly one Tag per bracketed pair, in input order,
\* duplicate keys kept; Event, Site, Date, Round, White, Black and Result map
\* to their own variant and every other key to Other(key, value); the value
\* is the bytes between the quotes verbatim, an escaped quote kept with its
\* backslash.
C6_TagListInOrder ==
    (pc = "done")
        => /\ out.st = "Done"
           /\ out.val = [k \in 1..Len(meta.pairs) |-> ExpectedTag(meta.pairs[k])]

(***************************************************************************)
(* Buffers: a buffer is a sequence of pieces, each a game text or a        *)
(* byte-order mark; pgn reads it as it is and again behind a mark.         *)
(***************************************************************************)
MaxPieces == 3

PawnGameText == <<"e", "4", " ", "*", " ">>

SiteGameText == SiteTagText \o <<"1", ".", " ", "e", "4", " ", "1", "-", "0", "\n">>

EmptyGameText == <<"0", "-", "1", "\n">>

GameTexts == {PawnGameText, SiteGameText, EmptyGameText}

RECURSIVE Concat(_)
Concat(pieces) == IF pieces = <<>> THEN <<>> ELSE Head(pieces) \o Concat(Tail(pieces))

InitPgn ==
    /\ meta \in [pieces : BoundedSeq(GameTexts \cup {BOM}, MaxPieces)]
    /\ input = Concat(meta.pieces)
    /\ out = [plain |-> NoResult, marked |-> NoResult]
    /\ pc = "pgn"

ParsePgn ==
    /\ pc = "pgn"
    /\ out' = [out EXCEPT !.plain = pgn(input)]
    /\ pc' = "pgn_marked"
    /\ UNCHANGED <<input, meta>>

ParsePgnMarked ==
    /\ pc = "pgn_marked"
    /\ input' = BOM \o input
    /\ out' = [out EXCEPT !.marked = pgn(input')]
    /\ pc' = "done"
    /\ UNCHANGED meta

NextPgn == ParsePgn \/ ParsePgnMarked

SpecPgn == InitPgn /\ [][NextPgn]_vars

\* Index of the first byte-order mark among the pieces, or 0.
FirstMark(pieces) ==
    IF \E k \in 1..Len(pieces) : pieces[k] = BOM
    THEN CHOOSE k \in 1..Len(pieces) :
             pieces[k] = BOM /\ \A j \in 1..(k - 1) : pieces[j] # BOM
    ELSE 0

\* C10: for every buffer x of games pgn(BOM ++ x) returns the same game list
\* as pgn(x); a byte-order mark before the second or a later game is not
\* skipped: the games before it are returned and the rest starts at the mark.
C10_BomSkippedOnce ==
    LET k == FirstMark(meta.pieces) IN
    (pc = "done")
        => /\ (k = 0) =>
                /\ out.marked.st = out.plain.st
                /\ out.marked.val = out.plain.val
                /\ out.marked.rest = out.plain.rest
           /\ (k > 1) =>
                /\ out.plain.st = "Done"
                /\ Len(out.plain.val) = k - 1
                /\ out.plain.rest = Concat(SubSeq(meta.pieces, k, Len(meta.pieces)))

(***************************************************************************)
(* Escape lines: a game text with or without a '%' line before the tag     *)
(* list and between the tag list and the movetext; game reads the text     *)
(* without the lines and then the text with them.                          *)
(***************************************************************************)
MaxEscapeNodes == 2

EscapeLineBook == <<"%", " ", "a", "=", "b", "\n">>

EscapeLineTag == <<"%", "[", "A", " ", "\"", "b", "\"", "]", "\n">>

EscapeLineResult == <<"%", "1", "-", "0", " ", "e", "4", "\n">>

EscapeLineBare == <<"%", "\n">>

EscapeLines == {EscapeLineBook, EscapeLineTag, EscapeLineResult, EscapeLineBare}

EscapeTokens == {TokComment, TokNumber, TokPawn}

PlainText(m) == m.tags \o JoinTokens(m.toks \o <<m.last>>)

EscapedText(m) == m.lead \o m.tags \o m.mid \o JoinTokens(m.toks \o <<m.last>>)

InitEscape ==
    /\ meta \in [lead : {<<>>} \cup EscapeLines,
                 tags : {<<>>, ResultTagText},
                 mid : {<<>>} \cup EscapeLines,
                 toks : BoundedSeq(EscapeTokens, MaxEscapeNodes),
                 last : {TokOther, TokDraw}]
    /\ input = PlainText(meta)
    /\ out = [plain |-> NoResult, marked |-> NoResult]
    /\ pc = "game"

ParseGamePlain ==
    /\ pc = "game"
    /\ out' = [out EXCEPT !.plain = game(input)]
    /\ pc' = "game_escaped"
    /\ UNCHANGED <<input, meta>>

ParseGameEscaped ==
    /\ pc = "game_escaped"
    /\ input' = EscapedText(meta)
    /\ out' = [out EXCEPT !.marked = game(input')]
    /\ pc' = "done"
    /\ UNCHANGED meta

NextEscape == ParseGamePlain \/ ParseGameEscaped

SpecEscape == InitEscape /\ [][NextEscape]_vars

\* C11: a line that starts with '%' and runs to the end of the line, placed
\* before the tag list or between the tag list and the movetext, is consumed
\* and ignored: game returns the tags, nodes and result of the same text
\* without the line, with no node and no tag for the line.
C11_EscapeLinesIgnored ==
    (pc = "done")
        => /\ out.plain.st = "Done"
           /\ out.plain.val = Game(ExpectedTags(meta), ExpectedNodes(meta.toks),
                                   ExpectedResult(meta.last))
           /\ out.marked.st = "Done"
           /\ out.marked.val = out.plain.val
           /\ out.marked.rest = out.plain.rest

(***************************************************************************)
(* Batches: a buffer of game texts of which some are malformed: a move     *)
(* text token that is no move, a tag without its closing bracket, a tag    *)
(* value without its closing quote, a comment without its closing brace.   *)
(***************************************************************************)
MaxBatchGames == 3

BadTokenGameText == <<"e", "9", " ", "*", " ">>

NoBracketGameText == <<"[", "S", "i", "t", "e", " ", "\"", "?", "\"", "\n", "e", "4", " ", "*", " ">>

NoQuoteGameText == <<"[", "S", "i", "t", "e", " ", "\"", "?", "]", "\n", "e", "4", " ", "*", " ">>

NoBraceGameText == <<"{", "a", " ", "e", "4", " ", "*", " ">>

BadGameTexts == {BadTokenGameText, NoBracketGameText, NoQuoteGameText, NoBraceGameText}

\* The game a well-formed game text denotes.
ExpectedGame(t) ==
    CASE t = PawnGameText -> Game(<<>>, <<ExpectedNode(TokPawn)>>, "Other")
      [] t = SiteGameText ->
           Game(<<Tag("Site", <<>>, <<"?">>)>>,
                <<MoveNumber(1, "One"), ExpectedNode(TokPawn)>>, "WhiteWin")
      [] t = EmptyGameText -> Game(<<>>, <<>>, "BlackWin")

InitBatch ==
    /\ meta \in [pieces : BoundedSeq(GameTexts \cup BadGameTexts, MaxBatchGames)]
    /\ input = Concat(meta.pieces)
    /\ out = NoResult
    /\ pc = "pgn"

ParseBatch ==
    /\ pc = "pgn"
    /\ out' = pgn(input)
    /\ pc' = "done"
    /\ UNCHANGED <<input, meta>>

NextBatch == ParseBatch

SpecBatch == InitBatch /\ [][NextBatch]_vars

\* Index of the first malformed game of the buffer, or 0.
FirstBad(pieces) ==
    IF \E k \in 1..Len(pieces) : pieces[k] \in BadGameTexts
    THEN CHOOSE k \in 1..Len(pieces) :
             pieces[k] \in BadGameTexts /\ \A j \in 1..(k - 1) : pieces[j] \notin BadGameTexts
    ELSE 0

\* C12: when the k-th game of a buffer of several games is structurally
\* malformed, pgn hands the caller the games 1..k-1 intact and the place
\* where parsing stopped: the unconsumed remainder is not empty (the failure
\* indication) and begins at the start of the malformed k-th game.
C12_FailurePosition ==
    LET k == FirstBad(meta.pieces) IN
    (pc = "done" /\ k > 0)
        => /\ out.st = "Done"
           /\ out.val = [j \in 1..(k - 1) |-> ExpectedGame(meta.pieces[j])]
           /\ out.rest = Concat(SubSeq(meta.pieces, k, Len(meta.pieces)))
           /\ out.rest # <<>>

(***************************************************************************)
(* src/types.rs: the packed moves.  A Move is a u16, so every shift is     *)
(* taken modulo 2^16.                                                      *)
(***************************************************************************)
RECURSIVE BitAnd(_, _)
BitAnd(a, b) ==
    IF a = 0 \/ b = 0 THEN 0
    ELSE (a % 2) * (b % 2) + 2 * BitAnd(a \div 2, b \div 2)

RECURSIVE BitOr(_, _)
BitOr(a, b) ==
    IF a = 0 THEN b
    ELSE IF b = 0 THEN a
    ELSE (IF a % 2 = 1 \/ b % 2 = 1 THEN 1 ELSE 0) + 2 * BitOr(a \div 2, b \div 2)

RECURSIVE BitXor(_, _)
BitXor(a, b) ==
    IF a = 0 THEN b
    ELSE IF b = 0 THEN a
    ELSE ((a + b) % 2) + 2 * BitXor(a \div 2, b \div 2)

Shl16(a, n) == (a * (2 ^ n)) % (2 ^ 16)

Shr(a, n) == a \div (2 ^ n)

SQUARE_NB == 64

MOVE_NONE == 0

MOVE_NULL == 65

NORMAL == 0

PROMOTION == Shl16(1, 14)

ENPASSANT == Shl16(2, 14)

CASTLING == Shl16(3, 14)

\* The abort of a failed assert! or of an arithmetic overflow check.
Panic == "panic"

from_square(m) == BitAnd(Shr(m, 6), 63)

to_square(m) == BitAnd(m, 63)

make_move_simple(from, to) == BitOr(Shl16(from, 6), to)

type_of_move(m) == BitAnd(m, Shl16(3, 14))

promotion_type(m) == BitAnd(Shr(m, 12), 3) + KNIGHT

\* A constructor that puts the promotion type one bit too high: with it in
\* place of make_move_with_promotion the type reaches the move-kind bits.
make_move_with_promotion_high(from, to, pt, overflow_checks) ==
    BitOr(BitOr(BitOr(PROMOTION, Shl16(pt - KNIGHT, 13)), Shl16(from, 6)), to)

\* pt - knight is a subtraction of u16: below KNIGHT it aborts in a build
\* with overflow checks and wraps around in a build without them.
make_move_with_promotion(from, to, pt, overflow_checks) ==
    IF pt < KNIGHT /\ overflow_checks THEN Panic
    ELSE BitOr(BitOr(BitOr(PROMOTION, Shl16((pt - KNIGHT) % (2 ^ 16), 12)),
                     Shl16(from, 6)), to)

make_move_(from, to) == BitOr(ENPASSANT, BitOr(Shl16(from, 6), to))

make_castling_move(from, to) == BitOr(CASTLING, BitOr(Shl16(from, 6), to))

\* A test that only knows MOVE_NONE: with it in place of is_move_ok the null
\* move passes for a real move.
is_move_not_none(m) == m # MOVE_NONE

is_move_ok(m) == from_square(m) # to_square(m)

(***************************************************************************)
(* Moves: a move is built from two squares by one of the constructors, or  *)
(* is one of the two sentinels, and is then taken apart.                   *)
(***************************************************************************)
Squares == 0..(SQUARE_NB - 1)

PromotionTypes == {KNIGHT, BISHOP, ROOK, QUEEN}

BuiltMove(kind, pt, m) == [kind |-> kind, pt |-> pt, move |-> m, ok |-> "unknown"]

InitMove ==
    /\ meta \in [from : Squares, to : Squares]
    /\ input = <<>>
    /\ out = BuiltMove("none", 0, MOVE_NONE)
    /\ pc = "make"

MakeMoveSimple ==
    /\ pc = "make"
    /\ out' = BuiltMove("simple", 0, make_move_simple(meta.from, meta.to))
    /\ pc' = "made"
    /\ UNCHANGED <<input, meta>>

MakeMoveWithPromotion ==
    /\ pc = "make"
    /\ \E pt \in PromotionTypes, overflow_checks \in BOOLEAN :
           out' = BuiltMove("promotion", pt,
                            make_move_with_promotion(meta.from, meta.to, pt, overflow_checks))
    /\ pc' = "made"
    /\ UNCHANGED <<input, meta>>

MakeEnPassantMove ==
    /\ pc = "make"
    /\ out' = BuiltMove("enpassant", 0, make_move_(meta.from, meta.to))
    /\ pc' = "made"
    /\ UNCHANGED <<input, meta>>

MakeCastlingMove ==
    /\ pc = "make"
    /\ out' = BuiltMove("castling", 0, make_castling_move(meta.from, meta.to))
    /\ pc' = "made"
    /\ UNCHANGED <<input, meta>>

TakeSentinel ==
    /\ pc = "make"
    /\ \E m \in {MOVE_NONE, MOVE_NULL} : out' = BuiltMove("sentinel", 0, m)
    /\ pc' = "made"
    /\ UNCHANGED <<input, meta>>

IsMoveOk ==
    /\ pc = "made"
    /\ out' = [out EXCEPT !.ok = is_move_ok(out.move)]
    /\ pc' = "done"
    /\ UNCHANGED <<input, meta>>

NextMove ==
    \/ MakeMoveSimple
    \/ MakeMoveWithPromotion
    \/ MakeEnPassantMove
    \/ MakeCastlingMove
    \/ TakeSentinel
    \/ IsMoveOk

SpecMove == InitMove /\ [][NextMove]_vars

MoveTypeOfKind(kind) ==
    CASE kind = "simple" -> NORMAL
      [] kind = "promotion" -> PROMOTION
      [] kind = "enpassant" -> ENPASSANT
      [] kind = "castling" -> CASTLING

\* C13: for every from and to in 0..63 and every promotion type from KNIGHT
\* to QUEEN, the move each constructor returns is below 2^16, from_square
\* and to_square give back from and to, type_of_move is NORMAL, PROMOTION,
\* ENPASSANT or CASTLING according to the constructor, and promotion_type of
\* a promotion move is the type given: bits 12-13 do not reach bits 14-15.
C13_PackedMoveRoundTrip ==
    (pc \in {"made", "done"} /\ out.kind # "sentinel")
        => /\ out.move \in 0..(2 ^ 16 - 1)
           /\ from_square(out.move) = meta.from
           /\ to_square(out.move) = meta.to
           /\ type_of_move(out.move) = MoveTypeOfKind(out.kind)
           /\ (out.kind = "promotion") => promotion_type(out.move) = out.pt

\* A queen promotion from h7 to h8, the largest promotion bits.
C13_Witness ==
    /\ pc = "made"
    /\ out.kind = "promotion"
    /\ out.pt = QUEEN
    /\ meta.from = 55
    /\ meta.to = 63
    /\ out.move = 16384 + 12288 + 55 * 64 + 63

\* C14: is_move_ok is false for MOVE_NONE and for MOVE_NULL, whose source
\* and destination squares decode to the same square, and true for every
\* move a constructor builds from two different squares, so that no such
\* move equals a sentinel.
C14_IsMoveOkSeparatesSentinels ==
    (pc = "done")
        => /\ (out.kind = "sentinel") =>
                /\ out.ok = FALSE
                /\ from_square(out.move) = to_square(out.move)
           /\ (out.kind # "sentinel" /\ meta.from # meta.to) =>
                /\ out.ok = TRUE
                /\ out.move \notin {MOVE_NONE, MOVE_NULL}

\* MOVE_NULL has been built and tested.
C14_Witness ==
    /\ pc = "done"
    /\ out.kind = "sentinel"
    /\ out.move = MOVE_NULL
    /\ out.ok = FALSE

(***************************************************************************)
(* src/types.rs: squares.                                                  *)
(***************************************************************************)
file_of(s) == BitAnd(s, 7)

\* A rank_of that shifts by the width of one byte less: with it in place of
\* rank_of a square no longer gives back its rank.
rank_of_short(s) == Shr(s, 2)

rank_of(s) == Shr(s, 3)

(***************************************************************************)
(* Squares: a square is made of a file and a rank and taken apart again,   *)
(* or taken apart and made again.                                          *)
(***************************************************************************)
Files == 0..(FILE_NB - 1)

Ranks == 0..(RANK_NB - 1)

InitSquare ==
    /\ \/ /\ meta \in [file : Files, rank : Ranks, square : {SQUARE_NB}]
          /\ pc = "parts"
       \/ /\ meta \in [file : {FILE_NB}, rank : {RANK_NB}, square : Squares]
          /\ pc = "square"
    /\ input = <<>>
    /\ out = meta

MakeSquare ==
    /\ pc \in {"parts", "split"}
    /\ out' = [out EXCEPT !.square = make_square(out.file, out.rank)]
    /\ pc' = IF pc = "parts" THEN "made" ELSE "remade"
    /\ UNCHANGED <<input, meta>>

FileAndRankOf ==
    /\ pc \in {"square", "made"}
    /\ out' = [out EXCEPT !.file = file_of(out.square), !.rank = rank_of(out.square)]
    /\ pc' = IF pc = "square" THEN "split" ELSE "resplit"
    /\ UNCHANGED <<input, meta>>

NextSquare == MakeSquare \/ FileAndRankOf

SpecSquare == InitSquare /\ [][NextSquare]_vars

\* C15: for every file f and rank r in 0..7, make_square(f, r) is 8*r + f,
\* lies in 0..63, and file_of and rank_of give back f and r; for every
\* square s in 0..63, make_square(file_of(s), rank_of(s)) is s.
C15_SquareRoundTrip ==
    /\ (pc \in {"made", "resplit"}) =>
         /\ out.square = 8 * meta.rank + meta.file
         /\ out.square \in 0..63
    /\ (pc = "resplit") => (out.file = meta.file /\ out.rank = meta.rank)
    /\ (pc = "split") => (out.file \in Files /\ out.rank \in Ranks)
    /\ (pc = "remade") => out.square = meta.square

\* g6 has been made and taken apart, giving file g and rank 6 again.
C15_Witness ==
    /\ pc = "resplit"
    /\ meta.file = 6
    /\ meta.rank = 5
    /\ out = [file |-> 6, rank |-> 5, square |-> 46]

(***************************************************************************)
(* src/types.rs: colours and pieces.                                       *)
(***************************************************************************)
WHITE == 0

BLACK == 1

NO_PIECE == 0

W_PAWN == 1

W_KNIGHT == 2

W_BISHOP == 3

W_ROOK == 4

W_QUEEN == 5

W_KING == 6

B_PAWN == 9

B_KNIGHT == 10

B_BISHOP == 11

B_ROOK == 12

B_QUEEN == 13

B_KING == 14

\* impl Neg for Color
NegColor(c) == BitXor(c, BLACK)

\* A negation that flips every bit of the piece: with it in place of NegPiece
\* the piece type changes as well as the side.
NegPieceAllBits(p) == BitXor(p, 15)

\* impl Neg for Piece
NegPiece(p) == BitXor(p, 8)

make_piece(c, pt) == (c * 8) + pt

\* A type_of_piece that keeps two bits only: with it in place of
\* type_of_piece a rook, a queen or a king loses its type.
type_of_piece_narrow(p) == BitAnd(p, 3)

type_of_piece(p) == BitAnd(p, 7)

color_of(p) == IF p = NO_PIECE THEN Panic ELSE Shr(p, 3)

(***************************************************************************)
(* Pieces: a piece is made of a colour and a type and taken apart, or a    *)
(* colour or a piece is negated.                                           *)
(***************************************************************************)
Colors == {WHITE, BLACK}

PieceTypes == PAWN..KING

Pieces == {W_PAWN, W_KNIGHT, W_BISHOP, W_ROOK, W_QUEEN, W_KING,
           B_PAWN, B_KNIGHT, B_BISHOP, B_ROOK, B_QUEEN, B_KING}

\* The named constant of a colour and a piece type.
NamedPiece(c, pt) ==
    IF c = WHITE
    THEN <<W_PAWN, W_KNIGHT, W_BISHOP, W_ROOK, W_QUEEN, W_KING>>[pt]
    ELSE <<B_PAWN, B_KNIGHT, B_BISHOP, B_ROOK, B_QUEEN, B_KING>>[pt]

InitPiece ==
    /\ meta \in [color : Colors, pt : PieceTypes, piece : Pieces \cup {NO_PIECE}]
    /\ input = <<>>
    /\ out = <<>>
    /\ pc = "piece"

MakePiece ==
    /\ pc = "piece"
    /\ out' = Only([p \in {make_piece(meta.color, meta.pt)} |->
                [piece |-> p, type |-> type_of_piece(p), color |-> color_of(p)]])
    /\ pc' = "made"
    /\ UNCHANGED <<input, meta>>

ColorOf ==
    /\ pc = "piece"
    /\ out' = [color |-> color_of(meta.piece)]
    /\ pc' = "colored"
    /\ UNCHANGED <<input, meta>>

NegateColor ==
    /\ pc = "piece"
    /\ out' = [color |-> NegColor(meta.color)]
    /\ pc' = "negated_color"
    /\ UNCHANGED <<input, meta>>

NegatePiece ==
    /\ pc = "piece"
    /\ out' = Only([p \in {NegPiece(meta.piece)} |->
                [piece |-> p, type |-> type_of_piece(p), color |-> color_of(p),
                 back |-> NegPiece(p)]])
    /\ pc' = "negated_piece"
    /\ UNCHANGED <<input, meta>>

NextPiece == MakePiece \/ ColorOf \/ NegateColor \/ NegatePiece

SpecPiece == InitPiece /\ [][NextPiece]_vars

\* C16: for every colour c of WHITE, BLACK and every piece type pt of
\* PAWN..KING, make_piece(c, pt) is (c << 3) | pt and is the named constant of
\* c and pt, type_of_piece gives back pt and color_of gives back c;
\* color_of(NO_PIECE) aborts by its assertion and returns no colour.
C16_PieceRoundTrip ==
    /\ (pc = "made") =>
         /\ out.piece = NamedPiece(meta.color, meta.pt)
         /\ out.piece = BitOr(meta.color * 8, meta.pt)
         /\ out.type = meta.pt
         /\ out.color = meta.color
    /\ (pc = "colored") =>
         IF meta.piece = NO_PIECE THEN out.color = Panic
         ELSE out.color = meta.piece \div 8

\* The black queen has been made and taken apart.
C16_Witness ==
    /\ pc = "made"
    /\ meta.color = BLACK
    /\ meta.pt = QUEEN
    /\ out = [piece |-> B_QUEEN, type |-> QUEEN, color |-> BLACK]

\* C17: negation flips the side only: -WHITE is BLACK and -BLACK is WHITE;
\* for each of the twelve pieces p, -p has the type of p and the other
\* colour, and -(-p) is p.
C17_NegationFlipsSide ==
    /\ (pc = "negated_color") =>
         out.color = (IF meta.color = WHITE THEN BLACK ELSE WHITE)
    /\ (pc = "negated_piece" /\ meta.piece \in Pieces) =>
         /\ out.type = meta.piece % 8
         /\ out.color = 1 - (meta.piece \div 8)
         /\ out.piece \in Pieces
         /\ out.back = meta.piece

\* The white rook has been negated into the black rook.
C17_Witness ==
    /\ pc = "negated_piece"
    /\ meta.piece = W_ROOK
    /\ out = [piece |-> B_ROOK, type |-> ROOK, color |-> BLACK, back |-> W_ROOK]

(***************************************************************************)
(* src/parser.rs: the UCI parsers, written with chain!.                    *)
(***************************************************************************)
\* A panic unwinds through every caller: the parser returns nothing.
Aborted == [st |-> "Panic", rest |-> <<>>, val |-> <<>>]

Aborts(v) == ToString(v) = ToString(Panic)

file(i) ==
    Only([f \in {one_of(i, {"a", "b", "c", "d", "e", "f", "g", "h",
                            "A", "B", "C", "D", "E", "F", "G", "H", "0"})} |->
      map(f, CASE f.val \in {"a", "A"} -> 0
               [] f.val \in {"b", "B"} -> 1
               [] f.val \in {"c", "C"} -> 2
               [] f.val \in {"d", "D"} -> 3
               [] f.val \in {"e", "E"} -> 4
               [] f.val \in {"f", "F"} -> 5
               [] f.val \in {"g", "G"} -> 6
               [] f.val \in {"h", "H"} -> 7
               [] f.val = "0" -> FILE_NB
               [] OTHER -> FILE_NB)])

rank(i) ==
    Only([r \in {one_of(i, {"1", "2", "3", "4", "5", "6", "7", "8", "0"})} |->
      map(r, CASE r.val = "1" -> 0
               [] r.val = "2" -> 1
               [] r.val = "3" -> 2
               [] r.val = "4" -> 3
               [] r.val = "5" -> 4
               [] r.val = "6" -> 5
               [] r.val = "7" -> 6
               [] r.val = "8" -> 7
               [] r.val = "0" -> RANK_NB
               [] OTHER -> RANK_NB)])

piece(i) ==
    Only([p \in {one_of(i, {"p", "n", "b", "r", "q", "k",
                            "P", "N", "B", "R", "Q", "K"})} |->
      complete(map(p, CASE p.val \in {"p", "P"} -> PAWN
                        [] p.val \in {"n", "N"} -> KNIGHT
                        [] p.val \in {"b", "B"} -> BISHOP
                        [] p.val \in {"r", "R"} -> ROOK
                        [] p.val \in {"q", "Q"} -> QUEEN
                        [] p.val \in {"k", "K"} -> KING
                        [] OTHER -> 0))])

\* A square parser that hands the rank to make_square as the file: with it
\* in place of square, e2 is read as b5.
square_transposed(i) ==
    Only([f \in {file(i)} |->
      IF f.st # "Done" THEN f ELSE
      Only([r \in {rank(f.rest)} |->
        IF r.st # "Done" THEN r ELSE
        Done(r.rest, IF f.val = FILE_NB \/ r.val = RANK_NB THEN SQUARE_NB
                     ELSE make_square(r.val, f.val))])])

square(i) ==
    Only([f \in {file(i)} |->
      IF f.st # "Done" THEN f ELSE
      Only([r \in {rank(f.rest)} |->
        IF r.st # "Done" THEN r ELSE
        Done(r.rest, IF f.val = FILE_NB \/ r.val = RANK_NB THEN SQUARE_NB
                     ELSE make_square(f.val, r.val))])])

\* promotion: piece? is an optional field: an Error of piece gives None.
uci(i, overflow_checks) ==
    Only([from \in {square(i)} |->
      IF from.st # "Done" THEN from ELSE
      Only([to \in {square(from.rest)} |->
        IF to.st # "Done" THEN to ELSE
        Only([promotion \in {opt(to.rest, piece(to.rest))} |->
          IF promotion.st # "Done" THEN promotion ELSE
          Only([m \in {IF from.val = SQUARE_NB \/ to.val = SQUARE_NB
                         THEN MOVE_NULL
                       ELSE IF IsSome(promotion.val)
                         THEN make_move_with_promotion(from.val, to.val,
                                  promotion.val[1], overflow_checks)
                       ELSE make_move_simple(from.val, to.val)} |->
            IF Aborts(m) THEN Aborted ELSE Done(promotion.rest, m)])])])])

(***************************************************************************)
(* UCI tokens: two squares and an optional promotion letter, each byte     *)
(* drawn from letters and digits inside and outside the board.             *)
(***************************************************************************)
UciFileBytes == {"a", "b", "e", "h", "A", "H", "0", "i"}

UciRankBytes == {"1", "2", "4", "7", "8", "0", "9"}

UciPromotionBytes == {"n", "b", "r", "q", "N", "Q", "k", "p"}

LowerFiles == <<"a", "b", "c", "d", "e", "f", "g", "h">>

UpperFiles == <<"A", "B", "C", "D", "E", "F", "G", "H">>

RankDigits == <<"1", "2", "3", "4", "5", "6", "7", "8">>

LowerPromotions == <<"n", "b", "r", "q">>

\* The square a file letter and a rank digit name.
NamedSquare(f, r) ==
    8 * ((CHOOSE k \in 1..8 : r = RankDigits[k]) - 1)
      + ((CHOOSE k \in 1..8 : f \in {LowerFiles[k], UpperFiles[k]}) - 1)

WellFormedSquare(f, r) ==
    /\ \E k \in 1..8 : f \in {LowerFiles[k], UpperFiles[k]}
    /\ \E k \in 1..8 : r = RankDigits[k]

WellFormedSquares(m) ==
    WellFormedSquare(m.f1, m.r1) /\ WellFormedSquare(m.f2, m.r2)

NullToken == <<"0", "0", "0", "0">>

InitUci ==
    /\ meta \in [f1 : UciFileBytes, r1 : UciRankBytes,
                 f2 : UciFileBytes, r2 : UciRankBytes,
                 promotion : {<<>>} \cup {<<c>> : c \in UciPromotionBytes}]
    /\ input = <<meta.f1, meta.r1, meta.f2, meta.r2>> \o meta.promotion
    /\ out = NoResult
    /\ pc = "uci"

Uci ==
    /\ pc = "uci"
    /\ \E overflow_checks \in BOOLEAN : out' = uci(input, overflow_checks)
    /\ pc' = "done"
    /\ UNCHANGED <<input, meta>>

NextUci == Uci

SpecUci == InitUci /\ [][NextUci]_vars

\* C18: uci maps two squares (file letter a-h in either case, rank digit
\* 1-8) to make_move_simple(from, to) of the named squares, the same
\* followed by a promotion letter n, b, r or q to
\* make_move_with_promotion(from, to, that piece type), and the token 0000
\* to MOVE_NULL; each time the whole token is consumed.
C18_UciMoves ==
    (pc = "done") =>
      /\ (WellFormedSquares(meta) /\ meta.promotion = <<>>) =>
           out = Done(<<>>, 64 * NamedSquare(meta.f1, meta.r1)
                              + NamedSquare(meta.f2, meta.r2))
      /\ (WellFormedSquares(meta) /\ meta.promotion # <<>>) =>
           \A k \in 1..4 :
             (meta.promotion[1] = LowerPromotions[k]) =>
               /\ out = Done(<<>>, 16384 + 4096 * (k - 1)
                                     + 64 * NamedSquare(meta.f1, meta.r1)
                                     + NamedSquare(meta.f2, meta.r2))
               /\ type_of_move(out.val) = PROMOTION
               /\ promotion_type(out.val) = KNIGHT + k - 1
      /\ (input = NullToken) => out = Done(<<>>, MOVE_NULL)

\* e7e8q has been read as the queen promotion from e7 to e8.
C18_Witness ==
    /\ pc = "done"
    /\ input = <<"e", "7", "e", "8", "q">>
    /\ out = Done(<<>>, 16384 + 3 * 4096 + 64 * 52 + 60)

\* C19: uci fails, returning no Move, for every token with a malformed
\* square (a file or rank byte 0 included, unless the token is 0000) and for
\* every token whose promotion letter is not n, b, r or q in either case;
\* no such token gives MOVE_NULL, a promotion move or an arithmetic
\* underflow in the move packing.
C19_UciStrict ==
    (pc = "done") =>
      /\ (~WellFormedSquares(meta) /\ input # NullToken) =>
           out.st \in {"Error", "Incomplete"}
      /\ (WellFormedSquares(meta) /\ meta.promotion \in {<<"k">>, <<"p">>}) =>
           out.st \in {"Error", "Incomplete"}

(***************************************************************************)
(* Promotions: a pawn move or a pawn capture to the last rank, followed by *)
(* nothing or by '=' and a letter, legal or not as a promotion target.     *)
(***************************************************************************)
PawnFileFrags == {<<>>, <<"b">>, <<"e">>}

LastRankFrags == {<<"d", "8">>, <<"f", "1">>, <<"H", "8">>}

LegalPromotionFrags == {<<"=", "N">>, <<"=", "B">>, <<"=", "R">>, <<"=", "Q">>}

OtherPromotionFrags == {<<"=", "K">>, <<"=", "P">>, <<"=", "q">>, <<"=", "n">>}

InitPromotion ==
    /\ meta \in [piece : {<<>>}, file : PawnFileFrags, rank : {<<>>},
                 capture : CaptureFrags, square : LastRankFrags,
                 promotion : {<<>>} \cup LegalPromotionFrags \cup OtherPromotionFrags,
                 check : CheckFrags, annotation : AnnotationFrags,
                 trail : TrailFrags]
    /\ (meta.file = <<>>) <=> (meta.capture = <<>>)
    /\ input = SanToken(meta) \o meta.trail
    /\ out = NoResult
    /\ pc = "san_move"

SpecPromotion == InitPromotion /\ [][NextSan]_vars

\* C20: in a pawn move or pawn capture a promotion is '=' and one of N, B, R,
\* Q, and san_move then gives Promotion::PieceType of that piece; san_move
\* never gives Promotion::PieceType(pt) with pt outside KNIGHT, BISHOP, ROOK,
\* QUEEN; and it gives Promotion::None when no promotion is written.
C20_PromotionTargets ==
    (pc = "done") =>
      /\ (out.st = "Done" /\ out.val.promo.k = "PieceType") =>
           out.val.promo.v \in PromotionTypes
      /\ (meta.promotion \in LegalPromotionFrags) =>
           /\ out.st = "Done"
           /\ out.val.kind = "Move"
           /\ out.val.pt = PAWN
           /\ out.val.promo = PromotionPieceType(PieceLetter(meta.promotion[2]))
      /\ (meta.promotion = <<>> /\ out.st = "Done") =>
           out.val.promo = PromotionNone

(***************************************************************************)
(* Suffixes: one token of each move form, then an optional check marker    *)
(* and an optional annotation.                                             *)
(***************************************************************************)
ExplicitForms == {<<"e", "4">>, <<"e", "x", "d", "5">>, <<"b", "x", "c", "3">>,
                  <<"N", "f", "3">>, <<"Q", "h", "4", "x", "e", "1">>}

CastleKingSideForm == <<"O", "-", "O">>

CastleQueenSideForm == <<"O", "-", "O", "-", "O">>

NullMoveForms == {<<"-", "-">>, <<"Z", "0">>, <<"z", "0">>}

MoveForms ==
    ExplicitForms \cup {CastleKingSideForm, CastleQueenSideForm} \cup NullMoveForms

AllAnnotationFrags ==
    {<<>>, <<"!", "!">>, <<"?", "?">>, <<"!", "?">>, <<"?", "!">>, <<"!">>, <<"?">>}

InitSuffix ==
    /\ meta \in [form : MoveForms, check : CheckFrags,
                 annotation : AllAnnotationFrags, trail : TrailFrags]
    /\ input = meta.form \o meta.check \o meta.annotation \o meta.trail
    /\ out = NoResult
    /\ pc = "san_move"

SpecSuffix == InitSuffix /\ [][NextSan]_vars

\* The check and the annotation a token's suffix writes.
WrittenCheck(m) ==
    CASE m.check = <<"+">> -> "Check"
      [] m.check = <<"#">> -> "Checkmate"
      [] m.check = <<>> -> "None"

WrittenAnnotation(m) ==
    CASE m.annotation = <<"!", "!">> -> "Brilliant"
      [] m.annotation = <<"?", "?">> -> "Blunder"
      [] m.annotation = <<"!", "?">> -> "Interesting"
      [] m.annotation = <<"?", "!">> -> "Dubious"
      [] m.annotation = <<"!">> -> "Strong"
      [] m.annotation = <<"?">> -> "Mistake"
      [] m.annotation = <<>> -> "None"

C22_CastlingAndNullMove ==
    (pc = "done" /\ meta.form \notin ExplicitForms) =>
      /\ out.st = "Done"
      /\ out.rest = meta.trail
      /\ out.val = NodeOther(CASE meta.form = CastleKingSideForm -> "CastleKingSide"
                               [] meta.form = CastleQueenSideForm -> "CastleQueenSide"
                               [] meta.form \in NullMoveForms -> "NullMove",
                             WrittenCheck(meta), WrittenAnnotation(meta))

\* O-O-O+! has been read as a queen-side castling with check, strong.
C22_Witness ==
    /\ pc = "done"
    /\ input = <<"O", "-", "O", "-", "O", "+", "!">>
    /\ out = Done(<<>>, NodeOther("CastleQueenSide", "Check", "Strong"))

(***************************************************************************)
(* Move numbers: a run of digits, a run of periods, and what follows.      *)
(***************************************************************************)
MaxDigits == 2

MaxPeriods == 5

NumberTexts == UNION {[1..n -> Digits] : n \in 1..MaxDigits}

NumberTrails == {<<>>, <<" ">>, <<" ", "e", "4">>}

\* The text of k periods.
PeriodsText(k) == [j \in 1..k |-> "."]

InitNumber ==
    /\ meta \in [digits : NumberTexts, periods : 0..MaxPeriods, trail : NumberTrails]
    /\ input = meta.digits \o PeriodsText(meta.periods) \o meta.trail
    /\ out = NoResult
    /\ pc = "game_node"

SpecNumber == InitNumber /\ [][NextComment]_vars

\* The decimal value of a run of digits, read from the left.
RECURSIVE DecimalValue(_, _)
DecimalValue(ds, acc) ==
    IF ds = <<>> THEN acc
    ELSE DecimalValue(Tail(ds), 10 * acc + DigitValue(Head(ds)))

\* C23: for an integer followed by k periods, game_node returns
\* MoveNumber(n, p) with n the decimal value of the digits and p None for
\* k = 0, One for k = 1, Three for k = 3 and Other for every other k.
C23_MoveNumberPeriods ==
    (pc = "done") =>
      /\ out.st = "Done"
      /\ out.val = MoveNumber(DecimalValue(meta.digits, 0),
                              CASE meta.periods = 0 -> "None"
                                [] meta.periods = 1 -> "One"
                                [] meta.periods = 3 -> "Three"
                                [] OTHER -> "Other")
      /\ out.rest = (IF meta.trail = <<>> THEN <<>> ELSE Tail(meta.trail))

\* 12.... before a move has been read as move number 12 with Other periods.
C23_Witness ==
    /\ pc = "done"
    /\ input = <<"1", "2", ".", ".", ".", ".", " ", "e", "4">>
    /\ out = Done(<<"e", "4">>, MoveNumber(12, "Other"))

(***************************************************************************)
(* src/parser/fen.rs: the piece-placement and castling fields of a FEN.    *)
(***************************************************************************)
FILE_A == 0

FILE_B == 1

FILE_C == 2

FILE_D == 3

FILE_E == 4

FILE_F == 5

FILE_G == 6

FILE_H == 7

\* fen::Node
NodeDrop(p) == [kind |-> "Drop", piece |-> p]

NodeSkip(n) == [kind |-> "Skip", n |-> n]

NodeNextRank == [kind |-> "NextRank"]

NodeCastle(c, f) == [kind |-> "Castle", color |-> c, file |-> f]

NodeNoCastling == [kind |-> "NoCastling"]

NodeError(c) == [kind |-> "Error", char |-> c]

fen_char(i) ==
    Only([r \in {one_of(i, {"r", "n", "b", "k", "q", "p", "/",
                            "R", "N", "B", "K", "Q", "P",
                            "1", "2", "3", "4", "5", "6", "7", "8"})} |->
      map(r, CASE r.val = "r" -> NodeDrop(B_ROOK)
               [] r.val = "n" -> NodeDrop(B_KNIGHT)
               [] r.val = "b" -> NodeDrop(B_BISHOP)
               [] r.val = "q" -> NodeDrop(B_QUEEN)
               [] r.val = "k" -> NodeDrop(B_KING)
               [] r.val = "p" -> NodeDrop(B_PAWN)
               [] r.val = "R" -> NodeDrop(W_ROOK)
               [] r.val = "N" -> NodeDrop(W_KNIGHT)
               [] r.val = "B" -> NodeDrop(W_BISHOP)
               [] r.val = "Q" -> NodeDrop(W_QUEEN)
               [] r.val = "K" -> NodeDrop(W_KING)
               [] r.val = "P" -> NodeDrop(W_PAWN)
               [] r.val = "1" -> NodeSkip(1)
               [] r.val = "2" -> NodeSkip(2)
               [] r.val = "3" -> NodeSkip(3)
               [] r.val = "4" -> NodeSkip(4)
               [] r.val = "5" -> NodeSkip(5)
               [] r.val = "6" -> NodeSkip(6)
               [] r.val = "7" -> NodeSkip(7)
               [] r.val = "8" -> NodeSkip(8)
               [] r.val = "/" -> NodeNextRank
               [] OTHER -> NodeError(r.val))])

\* many0!(fen_char): fen_char takes one byte at a time and the loop ends at
\* the end of the input or at the first byte fen_char refuses, so the loop
\* runs over the leading bytes that fen_char accepts.
LeadingFenChars(i) ==
    CHOOSE n \in 0..Len(i) :
      /\ \A k \in 1..n : fen_char(<<i[k]>>).st = "Done"
      /\ n = Len(i) \/ fen_char(<<i[n + 1]>>).st # "Done"

\* A placement parser that reads one character only: with it in place of
\* piece_placement the rest of the field is left over.
piece_placement_one_char(i) == map(fen_char(i), <<fen_char(i).val>>)

piece_placement(i) ==
    Only([n \in {LeadingFenChars(i)} |->
      Done(Drop(i, n), [k \in 1..n |-> fen_char(<<i[k]>>).val])])

castle_char(i) ==
    Only([r \in {one_of(i, {"-", "K", "Q", "k", "q",
                            "A", "B", "C", "E", "D", "F", "G", "H",
                            "a", "b", "c", "d", "e", "f", "g", "h"})} |->
      map(r, CASE r.val = "k" -> NodeCastle(WHITE, FILE_H)
               [] r.val = "q" -> NodeCastle(WHITE, FILE_A)
               [] r.val = "a" -> NodeCastle(WHITE, FILE_A)
               [] r.val = "b" -> NodeCastle(WHITE, FILE_B)
               [] r.val = "c" -> NodeCastle(WHITE, FILE_C)
               [] r.val = "d" -> NodeCastle(WHITE, FILE_D)
               [] r.val = "e" -> NodeCastle(WHITE, FILE_E)
               [] r.val = "f" -> NodeCastle(WHITE, FILE_F)
               [] r.val = "g" -> NodeCastle(WHITE, FILE_G)
               [] r.val = "h" -> NodeCastle(WHITE, FILE_H)
               [] r.val = "K" -> NodeCastle(BLACK, FILE_H)
               [] r.val = "Q" -> NodeCastle(BLACK, FILE_A)
               [] r.val = "A" -> NodeCastle(BLACK, FILE_A)
               [] r.val = "B" -> NodeCastle(BLACK, FILE_B)
               [] r.val = "C" -> NodeCastle(BLACK, FILE_C)
               [] r.val = "D" -> NodeCastle(BLACK, FILE_D)
               [] r.val = "E" -> NodeCastle(BLACK, FILE_E)
               [] r.val = "F" -> NodeCastle(BLACK, FILE_F)
               [] r.val = "G" -> NodeCastle(BLACK, FILE_G)
               [] r.val = "H" -> NodeCastle(BLACK, FILE_H)
               [] r.val = "-" -> NodeNoCastling
               [] OTHER -> NodeError(r.val))])

\* The leading bytes that the many0! of castling_rights accepts.
LeadingCastleChars(i) ==
    CHOOSE n \in 0..Len(i) :
      /\ \A k \in 1..n : castle_char(<<i[k]>>).st = "Done"
      /\ n = Len(i) \/ castle_char(<<i[n + 1]>>).st # "Done"

\* A castling parser that knows the letters K, Q, k, q and '-' only: with
\* it in place of castling_rights the file letters are left unread.
castling_rights_kq_only(i) ==
    Only([p \in {FirstNotIn(i, {"-", "K", "Q", "k", "q"})} |->
      Only([n \in {IF p = 0 THEN Len(i) ELSE p - 1} |->
        Done(Drop(i, n), [k \in 1..n |-> castle_char(<<i[k]>>).val])])])

castling_rights(i) ==
    Only([n \in {LeadingCastleChars(i)} |->
      Done(Drop(i, n), [k \in 1..n |-> castle_char(<<i[k]>>).val])])

(***************************************************************************)
(* FEN fields: a piece-placement text and two castling texts are parsed,   *)
(* one after the other.                                                    *)
(***************************************************************************)
ParsePiecePlacement ==
    /\ pc = "piece_placement"
    /\ input = meta.placement
    /\ out' = [out EXCEPT !.placement = piece_placement(input)]
    /\ input' = meta.castling
    /\ pc' = "castling_rights"
    /\ UNCHANGED meta

ParseCastlingRights ==
    /\ pc = "castling_rights"
    /\ out' = [out EXCEPT !.castling = castling_rights(input)]
    /\ input' = meta.other
    /\ pc' = "castling_rights_other"
    /\ UNCHANGED meta

ParseOtherCastlingRights ==
    /\ pc = "castling_rights_other"
    /\ out' = [out EXCEPT !.other = castling_rights(input)]
    /\ pc' = "done"
    /\ UNCHANGED <<input, meta>>

NextFen == ParsePiecePlacement \/ ParseCastlingRights \/ ParseOtherCastlingRights

NoFen == [placement |-> NoResult, castling |-> NoResult, other |-> NoResult]

(***************************************************************************)
(* Piece placement: every short text over the field's alphabet, and the    *)
(* starting position.                                                      *)
(***************************************************************************)
MaxPlacementLen == 2

PlacementBytes == {"r", "n", "b", "q", "k", "p", "R", "N", "B", "Q", "K", "P",
                   "1", "2", "3", "4", "5", "6", "7", "8", "/"}

StartingPlacement ==
    <<"r", "n", "b", "q", "k", "b", "n", "r", "/",
      "p", "p", "p", "p", "p", "p", "p", "p", "/",
      "8", "/", "8", "/", "8", "/", "8", "/",
      "P", "P", "P", "P", "P", "P", "P", "P", "/",
      "R", "N", "B", "Q", "K", "B", "N", "R">>

InitPlacement ==
    /\ meta \in [placement : BoundedSeq(PlacementBytes, MaxPlacementLen)
                               \cup {StartingPlacement},
                 castling : {<<"-">>}, other : {<<"-">>}]
    /\ input = meta.placement
    /\ out = NoFen
    /\ pc = "piece_placement"

SpecPlacement == InitPlacement /\ [][NextFen]_vars

\* The token one character of a placement text writes.
WrittenToken(c) ==
    CASE c \in {"R", "N", "B", "Q", "K", "P"} -> NodeDrop(make_piece(WHITE, PieceLetter(c)))
      [] c = "r" -> NodeDrop(make_piece(BLACK, ROOK))
      [] c = "n" -> NodeDrop(make_piece(BLACK, KNIGHT))
      [] c = "b" -> NodeDrop(make_piece(BLACK, BISHOP))
      [] c = "q" -> NodeDrop(make_piece(BLACK, QUEEN))
      [] c = "k" -> NodeDrop(make_piece(BLACK, KING))
      [] c = "p" -> NodeDrop(make_piece(BLACK, PAWN))
      [] c = "/" -> NodeNextRank
      [] OTHER -> NodeSkip(DigitValue(c))

\* The files the tokens cover up to the first NextRank, and the tokens after it.
RECURSIVE FilesOfFirstRank(_)
FilesOfFirstRank(toks) ==
    IF toks = <<>> \/ Head(toks).kind = "NextRank" THEN 0
    ELSE (IF Head(toks).kind = "Skip" THEN Head(toks).n ELSE 1)
           + FilesOfFirstRank(Tail(toks))

RECURSIVE AfterFirstRank(_)
AfterFirstRank(toks) ==
    IF toks = <<>> THEN <<>>
    ELSE IF Head(toks).kind = "NextRank" THEN Tail(toks)
    ELSE AfterFirstRank(Tail(toks))

\* The tokens are n ranks of eight files each, with a NextRank between them.
RECURSIVE RanksOfEight(_, _)
RanksOfEight(toks, n) ==
    /\ FilesOfFirstRank(toks) = 8
    /\ IF n = 1 THEN \A k \in 1..Len(toks) : toks[k].kind # "NextRank"
       ELSE /\ \E k \in 1..Len(toks) : toks[k].kind = "NextRank"
            /\ RanksOfEight(AfterFirstRank(toks), n - 1)

\* C24: for every text over the alphabet rnbqkpRNBQKP12345678/,
\* piece_placement gives one token for each character, in the order of the
\* text: Drop of the White piece for an upper-case letter, Drop of the Black
\* piece for a lower-case letter, Skip(n) for a digit n, NextRank for '/';
\* never Node::Error; and the starting position gives 7 NextRank tokens
\* between 8 ranks that cover 8 files each.
C24_PlacementTokens ==
    (pc # "piece_placement") =>
      /\ out.placement = Done(<<>>, [k \in 1..Len(meta.placement) |->
                                       WrittenToken(meta.placement[k])])
      /\ \A k \in 1..Len(out.placement.val) : out.placement.val[k].kind # "Error"
      /\ (meta.placement = StartingPlacement) =>
           /\ Cardinality({k \in 1..Len(out.placement.val) :
                             out.placement.val[k].kind = "NextRank"}) = 7
           /\ RanksOfEight(out.placement.val, 8)

\* The starting position has been read: 43 tokens, the black rook first and
\* the white rook last.
C24_Witness ==
    /\ pc = "castling_rights"
    /\ meta.placement = StartingPlacement
    /\ out.placement.st = "Done"
    /\ Len(out.placement.val) = 43
    /\ out.placement.val[1] = NodeDrop(B_ROOK)
    /\ out.placement.val[19] = NodeSkip(8)
    /\ out.placement.val[43] = NodeDrop(W_ROOK)

(***************************************************************************)
(* Castling fields: a text of castling letters, and a second text that     *)
(* names the same rights by file letters or in another order.              *)
(***************************************************************************)
MaxCastlingLen == 4

CastlingBytes == {"K", "Q", "k", "q", "H", "A", "h", "a"}

\* The text with K, Q, k, q written as the file letters H, A, h, a.
ToFileLetters(t) ==
    [j \in 1..Len(t) |->
       CASE t[j] = "K" -> "H"
         [] t[j] = "Q" -> "A"
         [] t[j] = "k" -> "h"
         [] t[j] = "q" -> "a"
         [] OTHER -> t[j]]

Reversed(t) == [j \in 1..Len(t) |-> t[Len(t) + 1 - j]]

\* The text with the letters of each pair (1st and 2nd, 3rd and 4th, ..) swapped.
PairsSwapped(t) ==
    [j \in 1..Len(t) |->
       IF j % 2 = 1 THEN (IF j + 1 <= Len(t) THEN t[j + 1] ELSE t[j])
       ELSE t[j - 1]]

OtherText(t, how) ==
    CASE how = "files" -> ToFileLetters(t)
      [] how = "reversed" -> Reversed(t)
      [] how = "swapped" -> PairsSwapped(t)

InitCastling ==
    /\ \E t \in BoundedSeq(CastlingBytes, MaxCastlingLen) \cup {<<"-">>} :
       \E how \in {"files", "reversed", "swapped"} :
         meta = [placement |-> <<"8">>, castling |-> t, how |-> how,
                 other |-> OtherText(t, how)]
    /\ input = meta.placement
    /\ out = NoFen
    /\ pc = "piece_placement"

SpecCastling == InitCastling /\ [][NextFen]_vars

\* C25: castling_rights maps K and H to the same token, Q and A, k and h,
\* q and a likewise, the king side being file H and the queen side file A,
\* so that KQkq and HAha give the same token sequence, which names all four
\* rights; '-' gives exactly [NoCastling].
C25_CastlingNotations ==
    (pc = "done") =>
      /\ (meta.how = "files") => out.castling = out.other
      /\ (meta.castling \in {<<"K">>, <<"k">>}) =>
           (out.castling.st = "Done" /\ out.castling.val[1].file = FILE_H)
      /\ (meta.castling \in {<<"Q">>, <<"q">>}) =>
           (out.castling.st = "Done" /\ out.castling.val[1].file = FILE_A)
      /\ (meta.castling = <<"K", "Q", "k", "q">>) =>
           /\ out.castling.st = "Done"
           /\ out.castling.rest = <<>>
           /\ {out.castling.val[k] : k \in 1..4}
                = {NodeCastle(c, f) : c \in Colors, f \in {FILE_A, FILE_H}}
      /\ (meta.castling = <<"-">>) => out.castling = Done(<<>>, <<NodeNoCastling>>)

\* KQkq and HAha have both been read, into the same four tokens.
C25_Witness ==
    /\ pc = "done"
    /\ meta.castling = <<"K", "Q", "k", "q">>
    /\ meta.other = <<"H", "A", "h", "a">>
    /\ out.castling.st = "Done"
    /\ Len(out.castling.val) = 4
    /\ out.other = out.castling

\* C26: two castling texts that name the same rights with their letters in a
\* different order (KQkq and qkQK, HAha and AHah) make castling_rights
\* return the same token sequence.
C26_CanonicalOrder ==
    (pc = "done" /\ meta.how \in {"reversed", "swapped"}) =>
      out.castling = out.other

(***************************************************************************)
(* Letter case: one piece letter in the placement field and one castling   *)
(* letter in the castling field.                                           *)
(***************************************************************************)
UpperPieceBytes == {"R", "N", "B", "Q", "K", "P"}

LowerPieceBytes == {"r", "n", "b", "q", "k", "p"}

UpperCastlingBytes == {"K", "Q", "A", "B", "C", "D", "E", "F", "G", "H"}

LowerCastlingBytes == {"k", "q", "a", "b", "c", "d", "e", "f", "g", "h"}

InitCase ==
    /\ \E p \in UpperPieceBytes \cup LowerPieceBytes :
       \E c \in UpperCastlingBytes \cup LowerCastlingBytes :
         meta = [placement |-> <<p>>, castling |-> <<c>>, other |-> <<"-">>]
    /\ input = meta.placement
    /\ out = NoFen
    /\ pc = "piece_placement"

SpecCase == InitCase /\ [][NextFen]_vars

\* C29: letter case denotes the same colour in every FEN field:
\* castling_rights gives an upper-case castling letter (K, Q, A-H) the colour
\* that piece_placement gives upper-case piece letters, White, and a
\* lower-case castling letter (k, q, a-h) the colour of lower-case piece
\* letters, Black.
C29_LetterCaseColour ==
    (pc = "done") =>
      /\ out.placement.st = "Done"
      /\ out.castling.st = "Done"
      /\ (meta.castling[1] \in UpperCastlingBytes) =>
           out.castling.val[1].color = WHITE
      /\ (meta.castling[1] \in LowerCastlingBytes) =>
           out.castling.val[1].color = BLACK
      /\ ((meta.castling[1] \in UpperCastlingBytes)
            <=> (meta.placement[1] \in UpperPieceBytes)) =>
           out.castling.val[1].color = color_of(out.placement.val[1].piece)

(***************************************************************************)
(* Followed tokens: a token is parsed at the end of the input and then     *)
(* again with one whitespace byte after it.                                *)
(***************************************************************************)
InitFollow ==
    /\ meta \in [piece : PieceFrags, file : FileFrags, rank : RankFrags,
                 capture : CaptureFrags, square : SquareFrags,
                 promotion : PromotionFrags, check : CheckFrags,
                 annotation : AnnotationFrags, trail : {<<>>}]
    /\ (meta.promotion # <<>> => meta.piece = <<>>)
    /\ input = SanToken(meta)
    /\ out = NoResult
    /\ pc = "san_move"

ParseSanMoveFollowed ==
    /\ pc = "done"
    /\ \E w \in Whitespace :
         /\ input' = input \o <<w>>
         /\ out' = [alone |-> out, followed |-> san_move(input')]
    /\ pc' = "compared"
    /\ UNCHANGED meta

NextFollow == ParseSanMove \/ ParseSanMoveFollowed

SpecFollow == InitFollow /\ [][NextFollow]_vars

\* C27: for every token that san_move accepts at the end of the input,
\* san_move of the token followed by a whitespace byte returns the same move
\* (piece type, source, capture flag, destination, promotion, check,
\* annotation); only the remaining input differs.
C27_FollowingWhitespace ==
    (pc = "compared" /\ out.alone.st = "Done" /\ out.alone.rest = <<>>) =>
      /\ out.followed.st = "Done"
      /\ out.followed.val = out.alone.val

(***************************************************************************)
(* Letters: every byte that san_piece, san_file and san_rank accept, and   *)
(* the token the three bytes make.                                         *)
(***************************************************************************)
SanPieceBytes == {"P", "N", "B", "R", "Q", "K", "p", "n", "b", "r", "q", "k"}

SanFileBytes == {"a", "b", "c", "d", "e", "f", "g", "h",
                 "A", "B", "C", "D", "E", "F", "G", "H"}

SanRankBytes == {"1", "2", "3", "4", "5", "6", "7", "8"}

InitLetters ==
    /\ meta \in [piece : SanPieceBytes, file : SanFileBytes, rank : SanRankBytes]
    /\ input = <<meta.piece, meta.file, meta.rank>>
    /\ out = [piece |-> NoResult, file |-> NoResult, rank |-> NoResult]
    /\ pc = "san_piece"

ParseSanPiece ==
    /\ pc = "san_piece"
    /\ out' = [out EXCEPT !.piece = san_piece(<<meta.piece>>)]
    /\ pc' = "san_file"
    /\ UNCHANGED <<input, meta>>

ParseSanFile ==
    /\ pc = "san_file"
    /\ out' = [out EXCEPT !.file = san_file(<<meta.file>>)]
    /\ pc' = "san_rank"
    /\ UNCHANGED <<input, meta>>

ParseSanRank ==
    /\ pc = "san_rank"
    /\ out' = [out EXCEPT !.rank = san_rank(<<meta.rank>>)]
    /\ pc' = "san_move"
    /\ UNCHANGED <<input, meta>>

NextLetters == ParseSanPiece \/ ParseSanFile \/ ParseSanRank \/ ParseSanMove

SpecLetters == InitLetters /\ [][NextLetters]_vars

\* C28: the fallback arms of the SAN letter parsers are unreachable: for
\* every byte it accepts, san_piece returns one of PAWN..KING and never
\* PIECE_TYPE_NB, san_file never FILE_NB and san_rank never RANK_NB; so no
\* move returned by san_move carries the piece type PIECE_TYPE_NB.
C28_FallbackArmsUnreachable ==
    /\ (pc \in {"san_file", "san_rank", "san_move"}) =>
         /\ out.piece.st = "Done"
         /\ out.piece.val \in PAWN..KING
    /\ (pc \in {"san_rank", "san_move"}) =>
         /\ out.file.st = "Done"
         /\ out.file.val \in 0..(FILE_NB - 1)
    /\ (pc = "san_move") =>
         /\ out.rank.st = "Done"
         /\ out.rank.val \in 0..(RANK_NB - 1)
    /\ (pc = "done" /\ out.st = "Done") => out.val.pt # PIECE_TYPE_NB

(***************************************************************************)
(* src/bitboard.rs: a Bitboard, a u64, is written as the set of the bits   *)
(* that are set in it: 1u64 << s is {s}, | is the union, & the             *)
(* intersection and ^ the symmetric difference.                            *)
(***************************************************************************)
SQ_A1 == 0

SQ_H8 == 63

\* The table starts as Bitboard(0) everywhere; the loop runs over the range
\* SQ_A1.0 .. SQ_H8.0, which leaves out its upper end.
SQUARE_BB ==
    [s \in 0..63 |-> IF s \in SQ_A1..(SQ_H8 - 1) THEN {s} ELSE {}]

(***************************************************************************)
(* Bitboards: a board over a few squares, first and last included, is      *)
(* combined with a square by |, & and ^.                                   *)
(***************************************************************************)
BoardSquares == {0, 7, 36, 62, 63}

InitBitboard ==
    /\ meta \in [b : SUBSET BoardSquares, s : Squares]
    /\ input = <<>>
    /\ out = [op |-> "none", b |-> {}]
    /\ pc = "bitboard"

BitAndSquare ==
    /\ pc = "bitboard"
    /\ out' = [op |-> "and", b |-> meta.b \cap SQUARE_BB[meta.s]]
    /\ pc' = "done"
    /\ UNCHANGED <<input, meta>>

BitOrSquare ==
    /\ pc = "bitboard"
    /\ out' = [op |-> "or", b |-> meta.b \cup SQUARE_BB[meta.s]]
    /\ pc' = "done"
    /\ UNCHANGED <<input, meta>>

BitXorSquare ==
    /\ pc = "bitboard"
    /\ out' = [op |-> "xor", b |-> (meta.b \ SQUARE_BB[meta.s])
                                     \cup (SQUARE_BB[meta.s] \ meta.b)]
    /\ pc' = "done"
    /\ UNCHANGED <<input, meta>>

NextBitboard == BitAndSquare \/ BitOrSquare \/ BitXorSquare

SpecBitboard == InitBitboard /\ [][NextBitboard]_vars

\* C30: for every square s in 0..63, H8 = 63 included, SQUARE_BB[s] is the
\* bitboard with exactly bit s set, so that for every bitboard b, b | s
\* contains s, b & s is non-empty exactly when b contains s, and b ^ s
\* toggles s.
C30_SquareTableComplete ==
    /\ (pc = "done") => SQUARE_BB[meta.s] = {meta.s}
    /\ (pc = "done" /\ out.op = "or") => out.b = meta.b \cup {meta.s}
    /\ (pc = "done" /\ out.op = "and") => ((out.b # {}) <=> (meta.s \in meta.b))
    /\ (pc = "done" /\ out.op = "xor") =>
         /\ (meta.s \in out.b) <=> (meta.s \notin meta.b)
         /\ out.b \ {meta.s} = meta.b \ {meta.s}

====
